---------------------------- MODULE Spec2Model ----------------------------
(***************************************************************************)
(* Ditter.io: the dither / colour-map pixel functions (EffectEngine.jsx),  *)
(* the camera (App.jsx), the rigid-body world (usePhysics.jsx) and the     *)
(* per-asset binding (PhysicsElement.jsx).                                 *)
(*                                                                         *)
(* JavaScript numbers are modelled as exact rationals [n |-> , d |-> ]     *)
(* in lowest terms.  ImageData.data is a Uint8ClampedArray: every store    *)
(* into it goes through ToUint8Clamp.  A JS index i of data is the index   *)
(* i + 1 of the sequence that models it.                                   *)
(***************************************************************************)
EXTENDS Integers, Sequences, FiniteSets, TLC

(***************************************************************************)
(* Exact rational arithmetic.                                              *)
(***************************************************************************)
Abs(a) == IF a < 0 THEN -a ELSE a

RECURSIVE GCD(_, _)
GCD(a, b) == IF b = 0 THEN a ELSE GCD(b, a % b)

Rat(n, d) ==
    LET s == IF d < 0 THEN -1 ELSE 1
        g == GCD(Abs(n), Abs(d))
    IN  [n |-> (s * n) \div g, d |-> (s * d) \div g]

RInt(i) == [n |-> i, d |-> 1]

\* sums over the least common denominator, products after cross-cancelling,
\* so that intermediate values stay small
RAdd(a, b) ==
    LET g == GCD(a.d, b.d)
    IN  Rat(a.n * (b.d \div g) + b.n * (a.d \div g), (a.d \div g) * b.d)
RNeg(a) == [n |-> -a.n, d |-> a.d]
RSub(a, b) == RAdd(a, RNeg(b))
RMul(a, b) ==
    LET g1 == GCD(Abs(a.n), b.d)
        g2 == GCD(Abs(b.n), a.d)
    IN  Rat((a.n \div g1) * (b.n \div g2), (a.d \div g2) * (b.d \div g1))
RInv(a) == IF a.n < 0 THEN [n |-> -a.d, d |-> -a.n] ELSE [n |-> a.d, d |-> a.n]
RDiv(a, b) == RMul(a, RInv(b))
\* a < b: by the integer parts, then by the fractional parts
RLess(a, b) ==
    LET fa == a.n \div a.d
        fb == b.n \div b.d
        g == GCD(a.d, b.d)
    IN  IF fa # fb THEN fa < fb
        ELSE (a.n - fa * a.d) * (b.d \div g) < (b.n - fb * b.d) * (a.d \div g)
RLeq(a, b) == ~RLess(b, a)
RMin(a, b) == IF RLess(b, a) THEN b ELSE a
RMax(a, b) == IF RLess(a, b) THEN b ELSE a

(***************************************************************************)
(* Bounds of the pixel model.                                              *)
(***************************************************************************)
MaxW == 4
MaxH == 4

(***************************************************************************)
(* Uint8ClampedArray store: clamp to [0,255], round to nearest, ties to    *)
(* even.  The stored value is num / den with den > 0.                      *)
(***************************************************************************)
ToUint8ClampNoClamp(num, den) ==
    LET f == num \div den
        r2 == 2 * (num - f * den)
    IN  IF r2 > den THEN f + 1
        ELSE IF r2 < den THEN f
        ELSE IF f % 2 = 0 THEN f ELSE f + 1

ToUint8Clamp(num, den) ==
    IF num <= 0 THEN 0
    ELSE IF num >= 255 * den THEN 255
    ELSE LET f == num \div den
             r2 == 2 * (num - f * den)
         IN  IF r2 > den THEN f + 1
             ELSE IF r2 < den THEN f
             ELSE IF f % 2 = 0 THEN f ELSE f + 1

\* data[i] = num / den
Store(d, i, num, den) == [d EXCEPT ![i + 1] = ToUint8Clamp(num, den)]

\* data[i]
Load(d, i) == d[i + 1]

NumPixels(d) == Len(d) \div 4

(***************************************************************************)
(* applyAtkinsonDither, first loop: BT.601 luminance into R, G and B.      *)
(***************************************************************************)
Luma(d, i) == ToUint8Clamp(299 * Load(d, i) + 587 * Load(d, i + 1) + 114 * Load(d, i + 2), 1000)

Greyscale(d) ==
    [k \in 1..Len(d) |->
        IF (k - 1) % 4 = 3 THEN d[k] ELSE Luma(d, ((k - 1) \div 4) * 4)]

(***************************************************************************)
(* applyAtkinsonDither, body of the inner loop for the pixel (x, y).       *)
(***************************************************************************)
\* a pixel at the threshold made black
QuantiseInclusive(oldPixel, thr) == IF RLeq(RInt(oldPixel), thr) THEN 0 ELSE 255

Quantise(oldPixel, thr) == IF RLess(RInt(oldPixel), thr) THEN 0 ELSE 255

\* the whole quantisation error added to a neighbour instead of an eighth
AddErrorFull(d, cond, k, quantError) ==
    IF cond THEN Store(d, k, Load(d, k) + quantError, 1) ELSE d

\* data[k] += errorFraction, where errorFraction = quantError / 8
AddError(d, cond, k, quantError) ==
    IF cond THEN Store(d, k, 8 * Load(d, k) + quantError, 8) ELSE d

\* a kernel that also reaches back to the pixel visited just before
DiffuseBackward(d, w, h, x, y, quantError) ==
    LET idx == (y * w + x) * 4
        d0 == AddError(d, x - 1 >= 0, idx - 4, quantError)
        d1 == AddError(d0, x + 1 < w, idx + 4, quantError)
        d2 == AddError(d1, x + 2 < w, idx + 8, quantError)
        d3 == AddError(d2, x - 1 >= 0 /\ y + 1 < h, idx - 4 + w * 4, quantError)
        d4 == AddError(d3, y + 1 < h, idx + w * 4, quantError)
        d5 == AddError(d4, x + 1 < w /\ y + 1 < h, idx + 4 + w * 4, quantError)
    IN  AddError(d5, y + 2 < h, idx + w * 8, quantError)

\* a kernel whose cells to the right are tested against the end of the buffer
\* only, so that at a row end they fall on the next row
DiffuseWraps(d, w, h, x, y, quantError) ==
    LET idx == (y * w + x) * 4
        d1 == AddError(d, idx + 4 < Len(d), idx + 4, quantError)
        d2 == AddError(d1, idx + 8 < Len(d), idx + 8, quantError)
        d3 == AddError(d2, x - 1 >= 0 /\ y + 1 < h, idx - 4 + w * 4, quantError)
        d4 == AddError(d3, y + 1 < h, idx + w * 4, quantError)
        d5 == AddError(d4, x + 1 < w /\ y + 1 < h, idx + 4 + w * 4, quantError)
    IN  AddError(d5, y + 2 < h, idx + w * 8, quantError)

\* the Atkinson kernel: right, two right, below-left, below, below-right, two below
Diffuse(d, w, h, x, y, quantError) ==
    LET idx == (y * w + x) * 4
        d1 == AddError(d, x + 1 < w, idx + 4, quantError)
        d2 == AddError(d1, x + 2 < w, idx + 8, quantError)
        d3 == AddError(d2, x - 1 >= 0 /\ y + 1 < h, idx - 4 + w * 4, quantError)
        d4 == AddError(d3, y + 1 < h, idx + w * 4, quantError)
        d5 == AddError(d4, x + 1 < w /\ y + 1 < h, idx + 4 + w * 4, quantError)
    IN  AddError(d5, y + 2 < h, idx + w * 8, quantError)

DitherPixel(d, w, h, x, y, thr) ==
    LET idx == (y * w + x) * 4
        oldPixel == Load(d, idx)
        newPixel == Quantise(oldPixel, thr)
        q0 == Store(Store(Store(d, idx + 2, newPixel, 1), idx + 1, newPixel, 1), idx, newPixel, 1)
        q1 == Diffuse(q0, w, h, x, y, oldPixel - newPixel)
        \* Ensure bounds
        c0 == Store(q1, idx, Load(q1, idx), 1)
        c1 == Store(c0, idx + 1, Load(c0, idx + 1), 1)
    IN  Store(c1, idx + 2, Load(c1, idx + 2), 1)

(***************************************************************************)
(* applyColorMap and its hexToRgb.  A string is a tuple of one-character   *)
(* strings.                                                                *)
(***************************************************************************)
LowerHex == <<"0", "1", "2", "3", "4", "5", "6", "7", "8", "9", "a", "b", "c", "d", "e", "f">>
UpperHex == <<"0", "1", "2", "3", "4", "5", "6", "7", "8", "9", "A", "B", "C", "D", "E", "F">>

\* [a-f\d] under the i flag
IsHexDigit(c) == \E v \in 1..16 : c = LowerHex[v] \/ c = UpperHex[v]

HexDigitValue(c) == (CHOOSE v \in 1..16 : c = LowerHex[v] \/ c = UpperHex[v]) - 1

\* parseInt(pair, 16) of a two-digit group
ParsePair(s, k) == 16 * HexDigitValue(s[k]) + HexDigitValue(s[k + 1])

\* a parser that also takes the three-digit shorthand
hexToRgbShorthand(hex) ==
    LET body == IF Len(hex) > 0 /\ hex[1] = "#" THEN Tail(hex) ELSE hex
    IN  IF Len(body) = 6 /\ \A k \in 1..6 : IsHexDigit(body[k])
        THEN [r |-> ParsePair(body, 1), g |-> ParsePair(body, 3), b |-> ParsePair(body, 5)]
        ELSE IF Len(body) = 3 /\ \A k \in 1..3 : IsHexDigit(body[k])
        THEN [r |-> 17 * HexDigitValue(body[1]), g |-> 17 * HexDigitValue(body[2]), b |-> 17 * HexDigitValue(body[3])]
        ELSE [r |-> 0, g |-> 0, b |-> 0]

\* a parser that reads the groups as blue, green, red
hexToRgbSwapped(hex) ==
    LET body == IF Len(hex) > 0 /\ hex[1] = "#" THEN Tail(hex) ELSE hex
    IN  IF Len(body) = 6 /\ \A k \in 1..6 : IsHexDigit(body[k])
        THEN [r |-> ParsePair(body, 5), g |-> ParsePair(body, 3), b |-> ParsePair(body, 1)]
        ELSE [r |-> 0, g |-> 0, b |-> 0]

hexToRgb(hex) ==
    LET body == IF Len(hex) > 0 /\ hex[1] = "#" THEN Tail(hex) ELSE hex
    IN  IF Len(body) = 6 /\ \A k \in 1..6 : IsHexDigit(body[k])
        THEN [r |-> ParsePair(body, 1), g |-> ParsePair(body, 3), b |-> ParsePair(body, 5)]
        ELSE [r |-> 0, g |-> 0, b |-> 0]

\* the test made on the green channel instead of the first channel
applyColorMapTestsGreen(d, accent) ==
    LET fg == hexToRgb(accent)
    IN  [k \in 1..Len(d) |->
            LET i == ((k - 1) \div 4) * 4
                c == (k - 1) % 4
            IN  IF Load(d, i + 1) < 128
                THEN (IF c = 0 THEN fg.r ELSE IF c = 1 THEN fg.g ELSE IF c = 2 THEN fg.b ELSE 255)
                ELSE (IF c = 3 THEN 0 ELSE d[k])]

\* the alpha of a pixel at or above 128 left as it was
applyColorMapKeepAlpha(d, accent) ==
    LET fg == hexToRgb(accent)
    IN  [k \in 1..Len(d) |->
            LET i == ((k - 1) \div 4) * 4
                c == (k - 1) % 4
            IN  IF Load(d, i) < 128
                THEN (IF c = 0 THEN fg.r ELSE IF c = 1 THEN fg.g ELSE IF c = 2 THEN fg.b ELSE 255)
                ELSE d[k]]

applyColorMap(d, accent) ==
    LET fg == hexToRgb(accent)
    IN  [k \in 1..Len(d) |->
            LET i == ((k - 1) \div 4) * 4
                c == (k - 1) % 4
            IN  IF Load(d, i) < 128
                THEN (IF c = 0 THEN fg.r ELSE IF c = 1 THEN fg.g ELSE IF c = 2 THEN fg.b ELSE 255)
                ELSE (IF c = 3 THEN 0 ELSE d[k])]


(***************************************************************************)
(* State.                                                                  *)
(***************************************************************************)
VARIABLES
    \* applyAtkinsonDither / applyColorMap
    imageData,      \* [width, height, data]: the ImageData being processed
    threshold,      \* the threshold of the running applyAtkinsonDither call
    accentColor,    \* the accentColor of the last applyColorMap call
    pixPc,          \* "idle", "input", "diffuse", "dithered", "mapped", "mapped2"
    ditherX,        \* x of the inner loop of applyAtkinsonDither
    ditherY,        \* y of the outer loop of applyAtkinsonDither
    source,         \* the data the caller passed in
    preMap,         \* the data before the last applyColorMap call
    mapOnce,        \* the data after the first of two applyColorMap calls
    \* App: camera and canvas pan
    camera,         \* the camera state with every queued setCamera applied
    cameraRef,      \* cameraRef.current: the camera of the last render
    isSpaceDown,    \* isSpaceDown.current
    isDragging,     \* isDragging.current
    lastMousePos,   \* lastMousePos.current
    capture,        \* the element holding the pointer capture: 0, Canvas or a layer id
    \* App: layers
    layers,         \* the layer list: a sequence of layer records
    nextLayerId,    \* the id the next created layer gets
    nextUrl,        \* the object URL the next URL.createObjectURL call returns
    selectedLayerId,\* the selected layer id, or 0 for null
    prevLayersRef,  \* prevLayersRef.current: the layer list kept for undo
    \* EffectEngine, per layer id, and the pipeline runs
    effectInst,     \* the EffectEngine instance rendered for the layer, or 0
    nextInst,       \* the number the next EffectEngine instance gets
    runs,           \* every pipeline run started so far, in order of start
    \* usePhysics and the Matter.js world
    engine,         \* TRUE once the usePhysics effect has created the engine
    world,          \* the ids of the bodies in engine.world
    bodies,         \* every body created so far: id -> its fields
    \* PhysicsElement, per layer id
    timer,          \* the 50 ms body-creation timer is pending
    bodyRef,        \* bodyRef.current: a body id, or 0 for null
    dragInfo,       \* dragInfo.current
    position,       \* the position state published to the DOM
    listener,       \* the afterUpdate listener is registered
    \* observation
    lastEvent,      \* the last event handled: [type, target, clientX, clientY]
    threw,          \* the handler that threw an exception, or "none"
    api,            \* the last addElement / removeElement call of a usePhysics client
    steps,          \* number of camera and canvas input events so far
    assetSteps,     \* number of layer and asset input events so far
    pipeSteps,      \* number of effect-panel input events so far
    ticks           \* number of simulation ticks so far

pixVars == <<imageData, threshold, accentColor, pixPc, ditherX, ditherY, source, preMap, mapOnce>>

camVars == <<camera, cameraRef, isSpaceDown, isDragging, lastMousePos, capture>>

layerVars == <<layers, nextLayerId, nextUrl, selectedLayerId, prevLayersRef>>

pipeVars == <<effectInst, nextInst, runs>>

physVars == <<engine, world, bodies>>

bindVars == <<timer, bodyRef, dragInfo, position, listener>>

obsVars == <<lastEvent, threw, api, steps, assetSteps, pipeSteps, ticks>>

vars == <<pixVars, camVars, layerVars, pipeVars, physVars, bindVars, obsVars>>

\* what an action of one component leaves alone in the others
notCamera == <<pixVars, layerVars, pipeVars, physVars, bindVars, threw, api, assetSteps, pipeSteps, ticks>>

notPixels == <<camVars, layerVars, pipeVars, physVars, bindVars, obsVars>>

(***************************************************************************)
(* Camera (App.jsx).                                                       *)
(***************************************************************************)
MIN_ZOOM == Rat(1, 10)
MAX_ZOOM == RInt(16)
ZOOM_FACTOR == Rat(27, 25)

\* window.innerWidth, window.innerHeight
InnerWidth == 800
InnerHeight == 600

\* number of camera and canvas input events of one behaviour
MaxSteps == 2

\* the canvas as an event target and capture holder
Canvas == -1

\* an event as it is handled: its type, its target, the pointer position, and
\* the layers the handler found
Event(type, target, cx, cy) ==
    [type |-> type, target |-> target, clientX |-> cx, clientY |-> cy, layers |-> layers]

NoEvent == Event("none", 0, 0, 0)

\* useState({ x: innerWidth / 2 - 4000, y: innerHeight / 2 - 4000, z: 1 })
InitialCamera ==
    [x |-> RSub(Rat(InnerWidth, 2), RInt(4000)), y |-> RSub(Rat(InnerHeight, 2), RInt(4000)), z |-> RInt(1)]

CamInit ==
    /\ camera = InitialCamera
    /\ cameraRef = camera
    /\ isSpaceDown = FALSE
    /\ isDragging = FALSE
    /\ lastMousePos = [x |-> 0, y |-> 0]
    /\ capture = 0

\* pointer positions and wheel deltas of the model
Points == { [x |-> 400, y |-> 300], [x |-> 480, y |-> 360] }
WheelDeltas == { [x |-> 0, y |-> -100], [x |-> 30, y |-> 100] }
Buttons == {0, 2}

\* handleWheel with ctrlKey or metaKey: zoom around the cursor
ZoomedUnclampedRatio(cam, cx, cy, deltaY) ==
    LET curr == cam.z
        factor == IF deltaY < 0 THEN ZOOM_FACTOR ELSE RInv(ZOOM_FACTOR)
        next == RMin(MAX_ZOOM, RMax(MIN_ZOOM, RMul(curr, factor)))
    IN  [x |-> RSub(RInt(cx), RMul(RSub(RInt(cx), cam.x), factor)),
         y |-> RSub(RInt(cy), RMul(RSub(RInt(cy), cam.y), factor)),
         z |-> next]

ZoomedNoClamp(cam, cx, cy, deltaY) ==
    LET curr == cam.z
        factor == IF deltaY < 0 THEN ZOOM_FACTOR ELSE RInv(ZOOM_FACTOR)
        next == RMul(curr, factor)
        ratio == RDiv(next, curr)
    IN  [x |-> RSub(RInt(cx), RMul(RSub(RInt(cx), cam.x), ratio)),
         y |-> RSub(RInt(cy), RMul(RSub(RInt(cy), cam.y), ratio)),
         z |-> next]

Zoomed(cam, cx, cy, deltaY) ==
    LET curr == cam.z
        factor == IF deltaY < 0 THEN ZOOM_FACTOR ELSE RInv(ZOOM_FACTOR)
        next == RMin(MAX_ZOOM, RMax(MIN_ZOOM, RMul(curr, factor)))
        ratio == RDiv(next, curr)
    IN  [x |-> RSub(RInt(cx), RMul(RSub(RInt(cx), cam.x), ratio)),
         y |-> RSub(RInt(cy), RMul(RSub(RInt(cy), cam.y), ratio)),
         z |-> next]

\* a camera or canvas input event was handled
CameraEvent(type, cx, cy) ==
    /\ lastEvent' = Event(type, Canvas, cx, cy)
    /\ steps' = steps + 1
    /\ UNCHANGED notCamera

WheelZoom(p, delta) ==
    /\ steps < MaxSteps
    /\ camera' = Zoomed(cameraRef, p.x, p.y, delta.y)
    /\ CameraEvent("zoom", p.x, p.y)
    /\ UNCHANGED <<cameraRef, isSpaceDown, isDragging, lastMousePos, capture>>

\* handleWheel without modifier: pan
WheelPan(p, delta) ==
    /\ steps < MaxSteps
    /\ camera' = [camera EXCEPT !.x = RSub(camera.x, RInt(delta.x)), !.y = RSub(camera.y, RInt(delta.y))]
    /\ CameraEvent("wheelpan", p.x, p.y)
    /\ UNCHANGED <<cameraRef, isSpaceDown, isDragging, lastMousePos, capture>>

\* handleKeyDown, Shift+0
ResetZoom ==
    /\ steps < MaxSteps
    /\ camera' = [camera EXCEPT !.z = RInt(1)]
    /\ CameraEvent("resetzoom", 0, 0)
    /\ UNCHANGED <<cameraRef, isSpaceDown, isDragging, lastMousePos, capture>>

\* handleKeyDown / handleKeyUp, Space
SpaceKey(down) ==
    /\ steps < MaxSteps
    /\ isSpaceDown # down
    /\ isSpaceDown' = down
    /\ CameraEvent(IF down THEN "spacedown" ELSE "spaceup", 0, 0)
    /\ UNCHANGED <<camera, cameraRef, isDragging, lastMousePos, capture>>

\* canvas handlePointerDown: the pointer went down on the canvas itself
CanvasPointerDown(p, button) ==
    /\ steps < MaxSteps
    /\ capture = 0
    /\ IF isSpaceDown \/ button = 1 \/ button = 0
       THEN /\ isDragging' = TRUE
            /\ lastMousePos' = p
            /\ capture' = Canvas
       ELSE UNCHANGED <<isDragging, lastMousePos, capture>>
    /\ CameraEvent("canvasdown", p.x, p.y)
    /\ UNCHANGED <<camera, cameraRef, isSpaceDown>>

\* canvas handlePointerMove, for a pointer-move whose target is the canvas
PannedBy(cam, p) ==
    [cam EXCEPT !.x = RAdd(cam.x, RInt(p.x - lastMousePos.x)),
                !.y = RAdd(cam.y, RInt(p.y - lastMousePos.y))]

CanvasPointerMove(p) ==
    /\ steps < MaxSteps
    /\ capture \in {0, Canvas}
    /\ IF isDragging
       THEN /\ camera' = PannedBy(camera, p)
            /\ lastMousePos' = p
       ELSE UNCHANGED <<camera, lastMousePos>>
    /\ CameraEvent("canvasmove", p.x, p.y)
    /\ UNCHANGED <<cameraRef, isSpaceDown, isDragging, capture>>

\* canvas handlePointerUp
CanvasPointerUp(p) ==
    /\ steps < MaxSteps
    /\ capture \in {0, Canvas}
    /\ isDragging' = FALSE
    /\ capture' = 0
    /\ CameraEvent("canvasup", p.x, p.y)
    /\ UNCHANGED <<camera, cameraRef, isSpaceDown, lastMousePos>>

\* a render in which the body effect of every rendered PhysicsElement runs
\* again, as it would with the camera among its dependencies
RenderRerunsBodyEffect ==
    LET rendered == {id \in DOMAIN timer : \E i \in DOMAIN layers : layers[i].id = id /\ layers[i].visible}
    IN  /\ cameraRef # camera
        /\ cameraRef' = camera
        /\ lastEvent' = Event("render", Canvas, 0, 0)
        /\ timer' = [id \in DOMAIN timer |-> IF id \in rendered THEN engine ELSE timer[id]]
        /\ world' = world \ {bodyRef[id] : id \in rendered}
        /\ UNCHANGED <<camera, isSpaceDown, isDragging, lastMousePos, capture, steps>>
        /\ UNCHANGED <<pixVars, layerVars, pipeVars, engine, bodies, bodyRef, dragInfo, position, listener,
                       threw, api, assetSteps, pipeSteps, ticks>>

\* re-render after setCamera: useEffect(() => { cameraRef.current = camera }, [camera])
Render ==
    /\ cameraRef # camera
    /\ cameraRef' = camera
    /\ lastEvent' = Event("render", Canvas, 0, 0)
    /\ UNCHANGED <<camera, isSpaceDown, isDragging, lastMousePos, capture, steps>>
    /\ UNCHANGED notCamera

(***************************************************************************)
(* usePhysics (usePhysics.jsx) and the part of Matter.js it relies on.     *)
(* A body handle is the index of the body in bodies; 0 is a falsy handle.  *)
(* Forces are in thousandths.                                              *)
(***************************************************************************)
\* cap on the number of bodies created in one behaviour, the four walls included
MaxBodies == 6

\* number of addElement / removeElement calls of one behaviour
MaxCalls == 4

Vec(x, y) == [x |-> x, y |-> y]

RVec(x, y) == [x |-> RInt(x), y |-> RInt(y)]

\* Matter.Bodies.rectangle(x, y, width, height, { isStatic })
Rectangle(x, y, width, height, isStatic) ==
    [position |-> Vec(x, y), width |-> width, height |-> height, isStatic |-> isStatic,
     velocity |-> Vec(0, 0), angularVelocity |-> 0, force |-> Vec(0, 0)]

\* Matter.Body.applyForce(body, body.position, force)
ApplyForce(body, force) ==
    [body EXCEPT !.force = Vec(body.force.x + force.x, body.force.y + force.y)]

\* { x: (Math.random() - 0.5) * 0.05, y: (Math.random() - 0.5) * 0.05 }
RandomForces == { Vec(-25, 24), Vec(10, -25) }

\* updateBoundaries: size = 10000, thick = 500
WorldSize == 10000
WallThick == 500

Walls ==
    << Rectangle(RInt(0), RInt(WorldSize \div 2), RInt(WorldSize), RInt(WallThick), TRUE),
       Rectangle(RInt(0), RInt(-(WorldSize \div 2)), RInt(WorldSize), RInt(WallThick), TRUE),
       Rectangle(RInt(-(WorldSize \div 2)), RInt(0), RInt(WallThick), RInt(WorldSize), TRUE),
       Rectangle(RInt(WorldSize \div 2), RInt(0), RInt(WallThick), RInt(WorldSize), TRUE) >>

NoCall == [op |-> "none", handle |-> 0, result |-> 0, world |-> {}, bodies |-> <<>>, prev |-> <<>>]

\* a call of the usePhysics API: its handle argument, its result, the world
\* and the bodies it found, and the call before it
Call(op, handle, result) ==
    [op |-> op, handle |-> handle, result |-> result, world |-> world, bodies |-> bodies,
     prev |-> [op |-> api.op, handle |-> api.handle, result |-> api.result, world |-> api.world]]

\* the effect of usePhysics: create the engine, then updateBoundaries().
\* setEngineState(engine) renders the clients again: the two effects of every
\* rendered PhysicsElement run with the engine (PhysicsElement.jsx, deps [engine])
UsePhysicsEffect ==
    /\ ~engine
    /\ Len(bodies) + Len(Walls) <= MaxBodies
    /\ engine' = TRUE
    /\ bodies' = bodies \o Walls
    /\ world' = {b \in world : ~bodies[b].isStatic} \cup {Len(bodies) + k : k \in DOMAIN Walls}
    /\ timer' = [id \in DOMAIN timer |-> \E i \in DOMAIN layers : layers[i].id = id /\ layers[i].visible]
    /\ listener' = [id \in DOMAIN listener |-> \E i \in DOMAIN layers : layers[i].id = id /\ layers[i].visible]
    /\ lastEvent' = Event("engine", 0, 0, 0)
    /\ UNCHANGED <<pixVars, pipeVars, pipeSteps, camVars, layerVars, bodyRef, dragInfo, position, threw, api, steps, assetSteps, ticks>>

\* the sizes and places a client of usePhysics asks for
ElementSizes == { Vec(200, 150), Vec(1, 1) }
ElementPlaces == { Vec(0, 0), Vec(4000, -3000) }

\* addElement(width, height, x, y)
AddElement(size, place, force) ==
    /\ assetSteps < MaxCalls
    /\ IF ~engine
       THEN /\ api' = Call("addElement", 0, 0)
            /\ UNCHANGED <<world, bodies>>
       ELSE /\ Len(bodies) < MaxBodies
            /\ bodies' = Append(bodies,
                  ApplyForce(Rectangle(RInt(place.x), RInt(place.y), RInt(size.x), RInt(size.y), FALSE), force))
            /\ world' = world \cup {Len(bodies) + 1}
            /\ api' = Call("addElement", 0, Len(bodies) + 1)
    /\ lastEvent' = Event("addElement", 0, 0, 0)
    /\ assetSteps' = assetSteps + 1
    /\ UNCHANGED <<pixVars, pipeVars, pipeSteps, camVars, layerVars, bindVars, engine, threw, steps, ticks>>

\* Matter.Composite.remove(world, body): nothing happens for a body that is not in the world
CompositeRemove(w, body) == w \ {body}

\* removeElement(body) without the guard against a falsy body:
\* Matter.Composite.remove(world, undefined) reads a property of undefined
RemoveElementUnguarded(handle) ==
    /\ assetSteps < MaxCalls
    /\ IF ~engine
       THEN UNCHANGED <<world, threw>>
       ELSE IF handle = 0
            THEN /\ threw' = "removeElement"
                 /\ UNCHANGED world
            ELSE /\ world' = CompositeRemove(world, handle)
                 /\ UNCHANGED threw
    /\ api' = Call("removeElement", handle, 0)
    /\ lastEvent' = Event("removeElement", 0, 0, 0)
    /\ assetSteps' = assetSteps + 1
    /\ UNCHANGED <<pixVars, pipeVars, pipeSteps, camVars, layerVars, bindVars, engine, bodies, steps, ticks>>

\* removeElement(body)
RemoveElement(handle) ==
    /\ assetSteps < MaxCalls
    /\ IF ~engine \/ handle = 0
       THEN UNCHANGED world
       ELSE world' = CompositeRemove(world, handle)
    /\ api' = Call("removeElement", handle, 0)
    /\ lastEvent' = Event("removeElement", 0, 0, 0)
    /\ assetSteps' = assetSteps + 1
    /\ UNCHANGED <<pixVars, pipeVars, pipeSteps, camVars, layerVars, bindVars, engine, bodies, threw, steps, ticks>>

(***************************************************************************)
(* Layers (App.jsx) and their PhysicsElement bindings                      *)
(* (PhysicsElement.jsx).  A layer is rendered as a PhysicsElement while it *)
(* is visible; the binding of a layer that is not rendered is in its       *)
(* initial state.                                                          *)
(***************************************************************************)
\* number of layers created in one behaviour
MaxLayers == 1

\* number of layer and asset input events of one behaviour
MaxAssetSteps == 3

\* number of simulation ticks of one behaviour
MaxTicks == 1

LayerIds == 1..MaxLayers

\* the size of a rendered asset before the world transform
AssetWidth == 300
AssetHeight == 200

\* the displacements of a moving body in one tick
Drifts == { Vec(3, -2), Vec(-1, 4) }

NoDrag == [active |-> FALSE, startX |-> 0, startY |-> 0, bodyX |-> RInt(0), bodyY |-> RInt(0)]

HasLayer(id) == \E i \in DOMAIN layers : layers[i].id = id

LayerIndex(id) == IF HasLayer(id) THEN CHOOSE i \in DOMAIN layers : layers[i].id = id ELSE 0

\* a processed image: the data URL of source url processed at pixel scale
\* pixelScale (in percent) into a width x height bitmap; NoUrl stands for null
ProcessedUrl(url, pixelScale, width, height) ==
    [src |-> url, pixelScale |-> pixelScale, width |-> width, height |-> height]

NoUrl == ProcessedUrl(0, 0, 0, 0)

\* createLayer(originalUrl, name), with the x and y its callers add
createLayer(id, originalUrl, x, y) ==
    [id |-> id, name |-> "file", visible |-> TRUE, opacity |-> 100,
     originalUrl |-> originalUrl, processedUrl |-> NoUrl,
     effectEnabled |-> FALSE, effectType |-> "atkinson", pixelScale |-> 40,
     contrast |-> 40, accentColor |-> "#0099ff", x |-> x, y |-> y]

\* layers.find(l => l.id === id); NoLayer stands for undefined
NoLayer ==
    [id |-> 0, name |-> "", visible |-> FALSE, opacity |-> 0,
     originalUrl |-> 0, processedUrl |-> NoUrl,
     effectEnabled |-> FALSE, effectType |-> "atkinson", pixelScale |-> 0,
     contrast |-> 0, accentColor |-> "", x |-> RInt(0), y |-> RInt(0)]

Layer(id) == IF HasLayer(id) THEN layers[LayerIndex(id)] ELSE NoLayer

Mounted(id) == HasLayer(id) /\ Layer(id).visible

BindInit ==
    /\ timer = [id \in LayerIds |-> FALSE]
    /\ bodyRef = [id \in LayerIds |-> 0]
    /\ dragInfo = [id \in LayerIds |-> NoDrag]
    /\ position = [id \in LayerIds |-> RVec(0, 0)]
    /\ listener = [id \in LayerIds |-> FALSE]

LayerInit ==
    /\ layers = <<>>
    /\ nextLayerId = 1
    /\ nextUrl = 1
    /\ selectedLayerId = 0
    /\ prevLayersRef = <<>>

PipeInit ==
    /\ effectInst = [id \in LayerIds |-> 0]
    /\ nextInst = 1
    /\ runs = <<>>

\* a layer or asset input event was handled
AssetEvent(type, target, cx, cy) ==
    /\ lastEvent' = Event(type, target, cx, cy)
    /\ assetSteps' = assetSteps + 1
    /\ UNCHANGED <<pixVars, api, steps, pipeSteps, ticks>>

\* first render of the PhysicsElement of layer id at (x, y), and its effects
Mount(id, x, y) ==
    /\ timer' = [timer EXCEPT ![id] = engine]
    /\ listener' = [listener EXCEPT ![id] = engine]
    /\ bodyRef' = [bodyRef EXCEPT ![id] = 0]
    /\ dragInfo' = [dragInfo EXCEPT ![id] = NoDrag]
    /\ position' = [position EXCEPT ![id] = Vec(x, y)]
    /\ UNCHANGED <<world, capture>>

\* the cleanups without clearTimeout(timer)
UnmountKeepsTimer(id) ==
    /\ timer' = timer
    /\ listener' = [listener EXCEPT ![id] = FALSE]
    /\ world' = IF engine /\ bodyRef[id] # 0 THEN CompositeRemove(world, bodyRef[id]) ELSE world
    /\ bodyRef' = [bodyRef EXCEPT ![id] = 0]
    /\ dragInfo' = [dragInfo EXCEPT ![id] = NoDrag]
    /\ position' = [position EXCEPT ![id] = RVec(0, 0)]
    /\ capture' = IF capture = id THEN 0 ELSE capture

\* the cleanups without Composite.remove(engine.world, bodyRef.current)
UnmountKeepsBody(id) ==
    /\ timer' = [timer EXCEPT ![id] = FALSE]
    /\ listener' = [listener EXCEPT ![id] = FALSE]
    /\ world' = world
    /\ bodyRef' = [bodyRef EXCEPT ![id] = 0]
    /\ dragInfo' = [dragInfo EXCEPT ![id] = NoDrag]
    /\ position' = [position EXCEPT ![id] = RVec(0, 0)]
    /\ capture' = IF capture = id THEN 0 ELSE capture

\* the PhysicsElement of layer id is removed from the tree: the cleanups of its effects
Unmount(id) ==
    /\ timer' = [timer EXCEPT ![id] = FALSE]
    /\ listener' = [listener EXCEPT ![id] = FALSE]
    /\ world' = IF engine /\ bodyRef[id] # 0 THEN CompositeRemove(world, bodyRef[id]) ELSE world
    /\ bodyRef' = [bodyRef EXCEPT ![id] = 0]
    /\ dragInfo' = [dragInfo EXCEPT ![id] = NoDrag]
    /\ position' = [position EXCEPT ![id] = RVec(0, 0)]
    /\ capture' = IF capture = id THEN 0 ELSE capture

\* handleFileUpload without a layer to replace, handlePaste: a new layer at the viewport centre
\* onDrop: a new layer under the pointer
NewLayer(type, cx, cy) ==
    LET x == RDiv(RSub(cx, cameraRef.x), cameraRef.z)
        y == RDiv(RSub(cy, cameraRef.y), cameraRef.z)
        id == nextLayerId
    IN  /\ assetSteps < MaxAssetSteps
        /\ nextLayerId <= MaxLayers
        /\ layers' = Append(layers, createLayer(id, nextUrl, x, y))
        /\ nextLayerId' = nextLayerId + 1
        /\ nextUrl' = nextUrl + 1
        /\ prevLayersRef' = layers
        /\ selectedLayerId' = id
        /\ Mount(id, x, y)
        /\ AssetEvent(type, id, 0, 0)
        /\ UNCHANGED <<camera, cameraRef, isSpaceDown, isDragging, lastMousePos, pipeVars, engine, bodies, threw>>

UploadLayer == NewLayer("upload", Rat(InnerWidth, 2), Rat(InnerHeight, 2))

DropLayer(p) == NewLayer("drop", RInt(p.x), RInt(p.y))

\* handleKeyDown, Delete or Backspace with a selected layer
DeleteLayer ==
    /\ assetSteps < MaxAssetSteps
    /\ selectedLayerId # 0
    /\ prevLayersRef' = layers
    /\ layers' = SelectSeq(layers, LAMBDA l : l.id # selectedLayerId)
    /\ selectedLayerId' = 0
    /\ IF Mounted(selectedLayerId)
       THEN Unmount(selectedLayerId)
       ELSE UNCHANGED <<bindVars, world, capture>>
    /\ effectInst' = [id \in LayerIds |-> IF id = selectedLayerId THEN 0 ELSE effectInst[id]]
    /\ AssetEvent("delete", selectedLayerId, 0, 0)
    /\ UNCHANGED <<camera, cameraRef, isSpaceDown, isDragging, lastMousePos, nextLayerId, nextUrl,
                   nextInst, runs, engine, bodies, threw>>

\* a visibility toggle that stores the position of the body in the layer
ToggleVisibilityStoresPosition(id) ==
    LET b == bodyRef[id]
        moved == Layer(id).visible /\ b # 0
    IN  /\ assetSteps < MaxAssetSteps
        /\ HasLayer(id)
        /\ layers' = [layers EXCEPT ![LayerIndex(id)] =
                          [@ EXCEPT !.visible = ~Layer(id).visible,
                                    !.x = IF moved THEN bodies[b].position.x ELSE @,
                                    !.y = IF moved THEN bodies[b].position.y ELSE @]]
        /\ IF Layer(id).visible
           THEN Unmount(id)
           ELSE Mount(id, Layer(id).x, Layer(id).y)
        /\ AssetEvent("visibility", id, 0, 0)
        /\ UNCHANGED <<camera, cameraRef, isSpaceDown, isDragging, lastMousePos, nextLayerId, nextUrl,
                       selectedLayerId, prevLayersRef, pipeVars, engine, bodies, threw>>

\* onVisibilityToggle: updateLayer(layer.id, { visible: !layer.visible })
ToggleVisibility(id) ==
    /\ assetSteps < MaxAssetSteps
    /\ HasLayer(id)
    /\ layers' = [layers EXCEPT ![LayerIndex(id)].visible = ~Layer(id).visible]
    /\ IF Layer(id).visible
       THEN Unmount(id)
       ELSE Mount(id, Layer(id).x, Layer(id).y)
    /\ AssetEvent("visibility", id, 0, 0)
    /\ UNCHANGED <<camera, cameraRef, isSpaceDown, isDragging, lastMousePos, nextLayerId, nextUrl,
                   selectedLayerId, prevLayersRef, pipeVars, engine, bodies, threw>>

\* a creation timer that fires again and again, as an interval would
CreateBodyRepeats(id, force) ==
    /\ timer[id]
    /\ Len(bodies) < MaxBodies
    /\ timer' = timer
    /\ bodies' = Append(bodies,
          ApplyForce(Rectangle(Layer(id).x, Layer(id).y,
                               RMul(RInt(AssetWidth), cameraRef.z), RMul(RInt(AssetHeight), cameraRef.z),
                               FALSE), force))
    /\ bodyRef' = [bodyRef EXCEPT ![id] = Len(bodies) + 1]
    /\ world' = world \cup {Len(bodies) + 1}
    /\ lastEvent' = Event("timer", id, 0, 0)
    /\ UNCHANGED <<pixVars, pipeVars, pipeSteps, camVars, layerVars, engine, dragInfo, position, listener,
                   threw, api, steps, assetSteps, ticks>>

\* the 50 ms timer of the body effect fires: measure the element, create the body
CreateBody(id, force) ==
    /\ timer[id]
    /\ Len(bodies) < MaxBodies
    /\ timer' = [timer EXCEPT ![id] = FALSE]
    /\ bodies' = Append(bodies,
          ApplyForce(Rectangle(Layer(id).x, Layer(id).y,
                               RMul(RInt(AssetWidth), cameraRef.z), RMul(RInt(AssetHeight), cameraRef.z),
                               FALSE), force))
    /\ bodyRef' = [bodyRef EXCEPT ![id] = Len(bodies) + 1]
    /\ world' = world \cup {Len(bodies) + 1}
    /\ lastEvent' = Event("timer", id, 0, 0)
    /\ UNCHANGED <<pixVars, pipeVars, pipeSteps, camVars, layerVars, engine, dragInfo, position, listener,
                   threw, api, steps, assetSteps, ticks>>

\* one Engine.update of the runner: the bodies of the world that are not
\* the region between the inner faces of the four walls
InnerHalf == WorldSize \div 2 - WallThick \div 2

InsideWalls(pos) ==
    /\ RLeq(RInt(-InnerHalf), pos.x) /\ RLeq(pos.x, RInt(InnerHalf))
    /\ RLeq(RInt(-InnerHalf), pos.y) /\ RLeq(pos.y, RInt(InnerHalf))

\* a coordinate of a body that runs into a wall from the inside stops at the wall
Stopped(v) == RMax(RInt(-InnerHalf), RMin(RInt(InnerHalf), v))

\* static move, a static body stays where it is; then afterUpdate runs
\* updatePosition of every registered binding
Moved(body, drift) ==
    LET to == Vec(RAdd(body.position.x, RInt(drift.x)), RAdd(body.position.y, RInt(drift.y)))
    IN  IF body.isStatic THEN body
        ELSE [body EXCEPT !.position = IF InsideWalls(body.position) THEN Vec(Stopped(to.x), Stopped(to.y)) ELSE to,
                          !.velocity = drift,
                          !.force = Vec(0, 0)]

Tick(drift) ==
    /\ ticks < MaxTicks
    /\ engine
    /\ bodies' = [b \in DOMAIN bodies |-> IF b \in world THEN Moved(bodies[b], drift) ELSE bodies[b]]
    /\ position' = [id \in LayerIds |->
          IF listener[id] /\ bodyRef[id] # 0 THEN bodies'[bodyRef[id]].position ELSE position[id]]
    /\ lastEvent' = Event("tick", 0, 0, 0)
    /\ ticks' = ticks + 1
    /\ UNCHANGED <<pixVars, pipeVars, pipeSteps, camVars, layerVars, engine, world, timer, bodyRef, dragInfo, listener,
                   threw, api, steps, assetSteps>>

(***************************************************************************)
(* Drag handlers of PhysicsElement.  A pointer event on an asset goes to   *)
(* the asset that holds the pointer capture, or else to the asset under    *)
(* the pointer; pointer-move and pointer-up then bubble to the canvas.     *)
(* Reading bodyRef.current.position while bodyRef.current is null, and     *)
(* Matter.Body.setStatic(null, ...), throw a TypeError.                    *)
(***************************************************************************)
\* handlePointerDown
AssetPointerDown(id, p) ==
    /\ assetSteps < MaxAssetSteps
    /\ Mounted(id)
    /\ capture = 0
    /\ capture' = id
    /\ IF bodyRef[id] = 0
       THEN /\ threw' = "handlePointerDown"
            /\ UNCHANGED <<dragInfo, bodies>>
       ELSE /\ dragInfo' = [dragInfo EXCEPT ![id] =
                  [active |-> TRUE, startX |-> p.x, startY |-> p.y,
                   bodyX |-> bodies[bodyRef[id]].position.x, bodyY |-> bodies[bodyRef[id]].position.y]]
            /\ bodies' = [bodies EXCEPT ![bodyRef[id]] =
                  [@ EXCEPT !.isStatic = TRUE, !.angularVelocity = 0, !.velocity = Vec(0, 0)]]
            /\ UNCHANGED threw
    /\ AssetEvent("assetdown", id, p.x, p.y)
    /\ UNCHANGED <<camera, cameraRef, isSpaceDown, isDragging, lastMousePos, layerVars, pipeVars, engine, world,
                   timer, bodyRef, position, listener>>

\* the drag delta multiplied by the zoom instead of divided by it
DraggedToTimesZoom(drag, p, cam) ==
    Vec(RAdd(drag.bodyX, RMul(RInt(p.x - drag.startX), cam.z)),
        RAdd(drag.bodyY, RMul(RInt(p.y - drag.startY), cam.z)))

\* handlePointerMove: where the body is put
DraggedTo(drag, p, cam) ==
    Vec(RAdd(drag.bodyX, RDiv(RInt(p.x - drag.startX), cam.z)),
        RAdd(drag.bodyY, RDiv(RInt(p.y - drag.startY), cam.z)))

\* handlePointerMove, then the canvas handlePointerMove
AssetPointerMove(id, p) ==
    /\ assetSteps < MaxAssetSteps
    /\ Mounted(id)
    /\ capture \in {0, id}
    /\ IF dragInfo[id].active
       THEN bodies' = [bodies EXCEPT ![bodyRef[id]].position = DraggedTo(dragInfo[id], p, cameraRef)]
       ELSE UNCHANGED bodies
    /\ IF isDragging
       THEN /\ camera' = PannedBy(camera, p)
            /\ lastMousePos' = p
       ELSE UNCHANGED <<camera, lastMousePos>>
    /\ AssetEvent("assetmove", id, p.x, p.y)
    /\ UNCHANGED <<cameraRef, isSpaceDown, isDragging, capture, layerVars, pipeVars, engine, world, bindVars, threw>>

\* handlePointerUp, then the canvas handlePointerUp
AssetPointerUp(id, p) ==
    /\ assetSteps < MaxAssetSteps
    /\ Mounted(id)
    /\ capture \in {0, id}
    /\ capture' = 0
    /\ dragInfo' = [dragInfo EXCEPT ![id].active = FALSE]
    /\ IF bodyRef[id] = 0
       THEN /\ threw' = "handlePointerUp"
            /\ UNCHANGED bodies
       ELSE /\ bodies' = [bodies EXCEPT ![bodyRef[id]] =
                  ApplyForce([@ EXCEPT !.isStatic = FALSE], Vec(0, 20))]
            /\ UNCHANGED threw
    /\ isDragging' = FALSE
    /\ AssetEvent("assetup", id, p.x, p.y)
    /\ UNCHANGED <<camera, cameraRef, isSpaceDown, lastMousePos, layerVars, pipeVars, engine, world,
                   timer, bodyRef, position, listener>>

(***************************************************************************)
(* EffectEngine: one instance per armed layer, one pipeline run each time  *)
(* the instance mounts or one of its inputs changes.                       *)
(***************************************************************************)
MaxPipeSteps == 3

MaxRuns == 4

RunIds == 1..MaxRuns

PixelScales == {0, 40, 100}

EffectTypes == {"atkinson", "halftone"}

\* rawPixelScale: 0..100 % to 1..20
rawPixelScale(pct) == Rat(pct * 19 + 100, 100)

\* img.width and img.height of the image behind an object URL
ImageSize(url) == IF url % 2 = 1 THEN [width |-> 64, height |-> 16] ELSE [width |-> 8, height |-> 8]

Floor(r) == r.n \div r.d

scaledWidth(run) == Floor(RDiv(RInt(ImageSize(run.src).width), rawPixelScale(run.pixelScale)))

scaledHeight(run) == Floor(RDiv(RInt(ImageSize(run.src).height), rawPixelScale(run.pixelScale)))

\* selectedLayer: the selected layer, else the last one, else none
SelectedLayer ==
    IF HasLayer(selectedLayerId) THEN selectedLayerId
    ELSE IF layers # <<>> THEN layers[Len(layers)].id ELSE 0

\* one run of the effect of instance inst for layer l: new Image(), img.src = src
Run(l, inst) ==
    [layer |-> l.id, inst |-> inst, src |-> l.originalUrl, effectType |-> l.effectType,
     pixelScale |-> l.pixelScale, state |-> "loading", reported |-> "nothing", prior |-> NoUrl]

\* the inputs of an effect that also depended on what onProcessed delivers
DepsChangedWithResult(old, new) ==
    \/ old.originalUrl # new.originalUrl
    \/ old.effectType # new.effectType
    \/ old.pixelScale # new.pixelScale
    \/ old.contrast # new.contrast
    \/ old.accentColor # new.accentColor
    \/ old.processedUrl # new.processedUrl

\* the inputs of the effect differ between two renders of a layer:
\* [src, effectType, pixelScale, contrast, accentColor]
DepsChanged(old, new) ==
    \/ old.originalUrl # new.originalUrl
    \/ old.effectType # new.effectType
    \/ old.pixelScale # new.pixelScale
    \/ old.contrast # new.contrast
    \/ old.accentColor # new.accentColor

\* commit of the EffectEngine elements for the layers ls, the runs so far
\* being rs: armed layers without an instance mount one, disarmed or missing
\* layers unmount theirs, and the effect runs for new instances and for
\* instances whose inputs changed
RenderEffectsFrom(ls, rs) ==
    LET armed(id) == \E i \in DOMAIN ls : ls[i].id = id /\ ls[i].effectEnabled
        fresh == {id \in LayerIds : armed(id) /\ effectInst[id] = 0}
        inst(id) == IF id \in fresh THEN nextInst ELSE effectInst[id]
        starts(l) == l.effectEnabled /\ (l.id \in fresh \/ DepsChanged(Layer(l.id), l))
        started == SelectSeq(ls, starts)
    IN  /\ Len(runs) + Len(started) <= MaxRuns
        /\ effectInst' = [id \in LayerIds |-> IF armed(id) THEN inst(id) ELSE 0]
        /\ nextInst' = IF fresh = {} THEN nextInst ELSE nextInst + 1
        /\ runs' = rs \o [i \in DOMAIN started |-> Run(started[i], inst(started[i].id))]

RenderEffects(ls) == RenderEffectsFrom(ls, runs)

\* a control of the side panel was used
PipeEvent(type, target) ==
    /\ lastEvent' = Event(type, target, 0, 0)
    /\ pipeSteps' = pipeSteps + 1
    /\ UNCHANGED <<pixVars, camVars, physVars, bindVars, threw, api, steps, assetSteps, ticks>>

\* updateLayer(id, changes) and the render that follows it
UpdateLayer(id, new) ==
    LET ls == [layers EXCEPT ![LayerIndex(id)] = new]
    IN  /\ layers' = ls
        /\ RenderEffects(ls)
        /\ UNCHANGED <<nextLayerId, nextUrl, selectedLayerId, prevLayersRef>>

Disarmed(l) == [l EXCEPT !.effectEnabled = FALSE, !.processedUrl = NoUrl]

\* click on an effect button: the armed effect disarms, any other arms
ClickEffect(type) ==
    LET l == Layer(SelectedLayer)
    IN  /\ pipeSteps < MaxPipeSteps
        /\ SelectedLayer # 0
        /\ UpdateLayer(l.id, IF l.effectEnabled /\ l.effectType = type
                             THEN Disarmed(l)
                             ELSE [l EXCEPT !.effectType = type, !.effectEnabled = TRUE])
        /\ PipeEvent("effect", l.id)

\* the Remove effect button, shown for an armed layer
RemoveEffect ==
    LET l == Layer(SelectedLayer)
    IN  /\ pipeSteps < MaxPipeSteps
        /\ SelectedLayer # 0
        /\ l.effectEnabled
        /\ UpdateLayer(l.id, Disarmed(l))
        /\ PipeEvent("remove", l.id)

\* the Pixel Scale slider
ChangePixelScale(pct) ==
    LET l == Layer(SelectedLayer)
    IN  /\ pipeSteps < MaxPipeSteps
        /\ SelectedLayer # 0
        /\ pct # l.pixelScale
        /\ UpdateLayer(l.id, [l EXCEPT !.pixelScale = pct])
        /\ PipeEvent("scale", l.id)

Contrasts == {40, 80}

\* the Contrast slider
ChangeContrast(pct) ==
    LET l == Layer(SelectedLayer)
    IN  /\ pipeSteps < MaxPipeSteps
        /\ SelectedLayer # 0
        /\ pct # l.contrast
        /\ UpdateLayer(l.id, [l EXCEPT !.contrast = pct])
        /\ PipeEvent("contrast", l.id)

LayerAccents == {"#0099ff", "#ff0000"}

\* the accent colour inputs
ChangeAccentColor(v) ==
    LET l == Layer(SelectedLayer)
    IN  /\ pipeSteps < MaxPipeSteps
        /\ SelectedLayer # 0
        /\ v # l.accentColor
        /\ UpdateLayer(l.id, [l EXCEPT !.accentColor = v])
        /\ PipeEvent("accent", l.id)

Opacities == {100, 50}

\* the Opacity slider
ChangeOpacity(pct) ==
    LET l == Layer(SelectedLayer)
    IN  /\ pipeSteps < MaxPipeSteps
        /\ SelectedLayer # 0
        /\ pct # l.opacity
        /\ UpdateLayer(l.id, [l EXCEPT !.opacity = pct])
        /\ PipeEvent("opacity", l.id)

\* onRenameCommit of a layer row
Rename(id) ==
    /\ pipeSteps < MaxPipeSteps
    /\ HasLayer(id)
    /\ Layer(id).name # "renamed"
    /\ UpdateLayer(id, [Layer(id) EXCEPT !.name = "renamed"])
    /\ PipeEvent("rename", id)

\* setSelectedLayerId and the render that follows it: a click on an asset or
\* on a layer row selects it (id), Escape or a click on the canvas deselects (0)
Select(id) ==
    /\ pipeSteps < MaxPipeSteps
    /\ id = 0 \/ HasLayer(id)
    /\ id # selectedLayerId
    /\ selectedLayerId' = id
    /\ RenderEffects(layers)
    /\ PipeEvent("select", id)
    /\ UNCHANGED <<layers, nextLayerId, nextUrl, prevLayersRef>>

\* handleFileUpload with a layer to replace
ReplaceSource ==
    LET l == Layer(SelectedLayer)
    IN  /\ pipeSteps < MaxPipeSteps
        /\ SelectedLayer # 0
        /\ layers' = [layers EXCEPT ![LayerIndex(l.id)] =
                          [l EXCEPT !.originalUrl = nextUrl, !.processedUrl = NoUrl, !.name = "file"]]
        /\ RenderEffects([layers EXCEPT ![LayerIndex(l.id)] =
                             [l EXCEPT !.originalUrl = nextUrl, !.processedUrl = NoUrl, !.name = "file"]])
        /\ nextUrl' = nextUrl + 1
        /\ PipeEvent("replace", l.id)
        /\ UNCHANGED <<nextLayerId, selectedLayerId, prevLayersRef>>

\* the data URL a run exports
Exported(run) == ProcessedUrl(run.src, run.pixelScale, scaledWidth(run), scaledHeight(run))

\* Outcome without the test of the scaled size
OutcomeNoSizeTest(run) ==
    IF effectInst[run.layer] # run.inst THEN "dropped" ELSE "delivered"

\* Outcome without the test of canvasRef.current
OutcomeNoCanvasTest(run) ==
    IF scaledWidth(run) < 1 \/ scaledHeight(run) < 1 THEN "aborted" ELSE "delivered"

\* Outcome of a pipeline that checks the inputs of a run against the layer
OutcomeIfCurrent(run) ==
    IF effectInst[run.layer] # run.inst THEN "dropped"
    ELSE IF scaledWidth(run) < 1 \/ scaledHeight(run) < 1 THEN "aborted"
    ELSE IF \/ run.src # Layer(run.layer).originalUrl
            \/ run.effectType # Layer(run.layer).effectType
            \/ run.pixelScale # Layer(run.layer).pixelScale
         THEN "stale" ELSE "delivered"

\* Outcome of a pipeline that tests the layer's armed flag, not the canvas
OutcomeIfArmed(run) ==
    IF ~Layer(run.layer).effectEnabled THEN "dropped"
    ELSE IF scaledWidth(run) < 1 \/ scaledHeight(run) < 1 THEN "aborted"
    ELSE "delivered"

\* the outcome of img.onload of a run: nothing without a canvas, nothing for
\* an image that scales to less than one pixel, else the exported data URL
Outcome(run) ==
    IF effectInst[run.layer] # run.inst THEN "dropped"
    ELSE IF scaledWidth(run) < 1 \/ scaledHeight(run) < 1 THEN "aborted"
    ELSE "delivered"

\* a run ended: its state, what its caller was told through onProcessed, and
\* the processedUrl its layer had until then
EndedRuns(r, state) ==
    [runs EXCEPT ![r].state = state,
                 ![r].reported = IF state = "delivered" THEN "url" ELSE "nothing",
                 ![r].prior = Layer(runs[r].layer).processedUrl]

Ended(r, state) ==
    /\ lastEvent' = Event(state, r, 0, 0)
    /\ UNCHANGED <<pixVars, camVars, physVars, bindVars, threw, api, steps, assetSteps, pipeSteps, ticks,
                   nextLayerId, nextUrl, selectedLayerId, prevLayersRef>>

\* img.onload of run r; a delivered result goes through updateLayer and the
\* render that follows it
ImageLoaded(r) ==
    /\ r \in DOMAIN runs
    /\ runs[r].state = "loading"
    /\ IF Outcome(runs[r]) = "delivered"
       THEN LET ls == [i \in DOMAIN layers |->
                         IF layers[i].id = runs[r].layer
                         THEN [layers[i] EXCEPT !.processedUrl = Exported(runs[r])]
                         ELSE layers[i]]
            IN  /\ layers' = ls
                /\ RenderEffectsFrom(ls, EndedRuns(r, "delivered"))
       ELSE /\ layers' = layers
            /\ runs' = EndedRuns(r, Outcome(runs[r]))
            /\ UNCHANGED <<effectInst, nextInst>>
    /\ Ended(r, Outcome(runs[r]))

\* the image of run r fails to load or to decode: no handler is attached
ImageFailed(r) ==
    /\ r \in DOMAIN runs
    /\ runs[r].state = "loading"
    /\ layers' = layers
    /\ runs' = EndedRuns(r, "error")
    /\ UNCHANGED <<effectInst, nextInst>>
    /\ Ended(r, "error")

\* handleKeyDown, Ctrl+Z or Cmd+Z: the layers saved by the last add or delete
\* come back if that list is not empty, else nothing changes
Undo ==
    LET ls == IF prevLayersRef # <<>> THEN prevLayersRef ELSE layers
        shown(id) == \E i \in DOMAIN ls : ls[i].id = id /\ ls[i].visible
        at(id) == ls[CHOOSE i \in DOMAIN ls : ls[i].id = id]
        appear == {id \in LayerIds : shown(id) /\ ~Mounted(id)}
        vanish == {id \in LayerIds : Mounted(id) /\ ~shown(id)}
        keep(f, id, new, gone) == IF id \in appear THEN new ELSE IF id \in vanish THEN gone ELSE f[id]
    IN  /\ assetSteps < MaxAssetSteps
        /\ layers' = ls
        /\ prevLayersRef' = <<>>
        /\ RenderEffects(ls)
        /\ timer' = [id \in LayerIds |-> keep(timer, id, engine, FALSE)]
        /\ listener' = [id \in LayerIds |-> keep(listener, id, engine, FALSE)]
        /\ bodyRef' = [id \in LayerIds |-> keep(bodyRef, id, 0, 0)]
        /\ dragInfo' = [id \in LayerIds |-> keep(dragInfo, id, NoDrag, NoDrag)]
        /\ position' = [id \in LayerIds |->
                           IF id \in appear THEN Vec(at(id).x, at(id).y)
                           ELSE IF id \in vanish THEN RVec(0, 0) ELSE position[id]]
        /\ world' = IF engine THEN world \ {bodyRef[id] : id \in vanish} ELSE world
        /\ capture' = IF capture \in vanish THEN 0 ELSE capture
        /\ AssetEvent("undo", 0, 0, 0)
        /\ UNCHANGED <<camera, cameraRef, isSpaceDown, isDragging, lastMousePos, nextLayerId, nextUrl,
                       selectedLayerId, engine, bodies, threw>>

(***************************************************************************)
(* Initial states of the components.                                       *)
(***************************************************************************)
\* no engine yet, an empty world
WorldInit ==
    /\ engine = FALSE
    /\ world = {}
    /\ bodies = <<>>

\* the world once the effect of usePhysics has run
WorldReady ==
    /\ engine = TRUE
    /\ world = DOMAIN Walls
    /\ bodies = Walls

ObsInit ==
    /\ lastEvent = NoEvent
    /\ threw = "none"
    /\ api = NoCall
    /\ steps = 0
    /\ assetSteps = 0
    /\ pipeSteps = 0
    /\ ticks = 0

(***************************************************************************)
(* Inputs of the pixel functions.                                          *)
(***************************************************************************)
Colours ==
    { <<0, 0, 0, 255>>, <<10, 10, 10, 255>>, <<100, 100, 100, 255>>, <<128, 128, 128, 255>>,
      <<250, 250, 250, 255>>, <<255, 255, 255, 255>>, <<255, 0, 0, 255>>, <<0, 255, 255, 77>> }

Patterns == {"uniform", "first", "checker"}

\* the colour of pixel p (0-based, raster order) of a w-wide bitmap
PatternColour(pat, a, b, w, p) ==
    IF pat = "uniform" THEN a
    ELSE IF pat = "first" THEN (IF p = 0 THEN a ELSE b)
    ELSE (IF ((p % w) + (p \div w)) % 2 = 0 THEN a ELSE b)

MakeData(pat, a, b, w, h) ==
    [k \in 1..(w * h * 4) |-> PatternColour(pat, a, b, w, (k - 1) \div 4)[((k - 1) % 4) + 1]]

Thresholds == { RInt(0), Rat(128, 3), RInt(64), RInt(101), RInt(128), RInt(1280) }

AccentColors ==
    { <<"#", "1", "A", "2", "B", "3", "C">>,
      <<"#", "F", "F", "0", "0", "0", "0">>,
      <<"#", "0", "0", "9", "9", "f", "f">>,
      <<"1", "a", "2", "b", "3", "c">>,
      <<"#", "f", "f", "f">>,
      <<"#", "1", "2", "3", "4", "5", "g">>,
      <<>> }

PixIdle ==
    /\ imageData = [width |-> 0, height |-> 0, data |-> <<>>]
    /\ threshold = RInt(0)
    /\ accentColor = <<>>
    /\ pixPc = "idle"
    /\ ditherX = 0
    /\ ditherY = 0
    /\ source = <<>>
    /\ preMap = <<>>
    /\ mapOnce = <<>>

InitPixels ==
    /\ CamInit
    /\ LayerInit
    /\ PipeInit
    /\ WorldReady
    /\ BindInit
    /\ ObsInit
    /\ \E w \in 1..MaxW, h \in 1..MaxH, pat \in Patterns, a \in Colours, b \in Colours :
          imageData = [width |-> w, height |-> h, data |-> MakeData(pat, a, b, w, h)]
    /\ source = imageData.data
    /\ threshold = RInt(0)
    /\ accentColor = <<>>
    /\ pixPc = "input"
    /\ ditherX = 0
    /\ ditherY = 0
    /\ preMap = <<>>
    /\ mapOnce = <<>>

(***************************************************************************)
(* applyAtkinsonDither(imageData, thr): the greyscale loop, then one       *)
(* step per iteration of the inner loop.                                   *)
(***************************************************************************)
DitherStart(thr) ==
    /\ pixPc = "input"
    /\ threshold' = thr
    /\ imageData' = [imageData EXCEPT !.data = Greyscale(imageData.data)]
    /\ ditherX' = 0
    /\ ditherY' = 0
    /\ pixPc' = IF imageData.height > 0 /\ imageData.width > 0 THEN "diffuse" ELSE "dithered"
    /\ UNCHANGED <<accentColor, source, preMap, mapOnce>>
    /\ UNCHANGED notPixels

DitherStep ==
    /\ pixPc = "diffuse"
    /\ imageData' = [imageData EXCEPT !.data =
            DitherPixel(imageData.data, imageData.width, imageData.height, ditherX, ditherY, threshold)]
    /\ IF ditherX + 1 < imageData.width
       THEN /\ ditherX' = ditherX + 1
            /\ UNCHANGED <<ditherY, pixPc>>
       ELSE /\ ditherX' = 0
            /\ ditherY' = ditherY + 1
            /\ pixPc' = IF ditherY + 1 < imageData.height THEN "diffuse" ELSE "dithered"
    /\ UNCHANGED <<threshold, accentColor, source, preMap, mapOnce>>
    /\ UNCHANGED notPixels

(***************************************************************************)
(* applyColorMap(imageData, accent), and a second call with the same       *)
(* accent on its result.                                                   *)
(***************************************************************************)
ColorMap(accent) ==
    /\ pixPc \in {"input", "dithered"}
    /\ accentColor' = accent
    /\ preMap' = imageData.data
    /\ imageData' = [imageData EXCEPT !.data = applyColorMap(imageData.data, accent)]
    /\ pixPc' = "mapped"
    /\ UNCHANGED <<threshold, ditherX, ditherY, source, mapOnce>>
    /\ UNCHANGED notPixels

ColorMapAgain ==
    /\ pixPc = "mapped"
    /\ mapOnce' = imageData.data
    /\ imageData' = [imageData EXCEPT !.data = applyColorMap(imageData.data, accentColor)]
    /\ pixPc' = "mapped2"
    /\ UNCHANGED <<threshold, accentColor, ditherX, ditherY, source, preMap>>
    /\ UNCHANGED notPixels

NextPixels ==
    \/ \E thr \in Thresholds : DitherStart(thr)
    \/ DitherStep
    \/ \E accent \in AccentColors : ColorMap(accent)
    \/ ColorMapAgain

SpecPixels == InitPixels /\ [][NextPixels]_vars

(***************************************************************************)
(* The camera on its own, from the initial zoom and from the two limits.   *)
(* The limits are reached from the initial camera by 37 zooms in or 30     *)
(* zooms out around the viewport centre, followed by a pan that undoes     *)
(* the translation.                                                        *)
(***************************************************************************)
CameraStarts ==
    { [InitialCamera EXCEPT !.z = z] : z \in {RInt(1), MAX_ZOOM, MIN_ZOOM} }

InitCamera ==
    /\ PixIdle
    /\ camera \in CameraStarts
    /\ cameraRef = camera
    /\ isSpaceDown = FALSE
    /\ isDragging = FALSE
    /\ lastMousePos = [x |-> 0, y |-> 0]
    /\ capture = 0
    /\ LayerInit
    /\ PipeInit
    /\ WorldReady
    /\ BindInit
    /\ ObsInit

NextCamera ==
    \/ \E p \in Points, delta \in WheelDeltas : WheelZoom(p, delta)
    \/ \E p \in Points, delta \in WheelDeltas : WheelPan(p, delta)
    \/ ResetZoom
    \/ \E down \in BOOLEAN : SpaceKey(down)
    \/ \E p \in Points, button \in Buttons : CanvasPointerDown(p, button)
    \/ \E p \in Points : CanvasPointerMove(p)
    \/ \E p \in Points : CanvasPointerUp(p)
    \/ Render

SpecCamera == InitCamera /\ [][NextCamera]_vars

(***************************************************************************)
(* A client of usePhysics calling addElement and removeElement, before     *)
(* and after the engine exists.                                            *)
(***************************************************************************)
\* 0 is a falsy handle; a handle above Len(bodies) is a body that was never added
Handles == 0..MaxBodies

InitWorld ==
    /\ PixIdle
    /\ CamInit
    /\ LayerInit
    /\ PipeInit
    /\ WorldInit
    /\ BindInit
    /\ ObsInit

NextWorld ==
    \/ UsePhysicsEffect
    \/ \E size \in ElementSizes, place \in ElementPlaces, force \in RandomForces : AddElement(size, place, force)
    \/ \E handle \in Handles : RemoveElement(handle)

SpecWorld == InitWorld /\ [][NextWorld]_vars

(***************************************************************************)
(* PhysicsElement bindings that may be rendered before the engine exists:  *)
(* mount, engine initialisation, timer expiry, ticks and unmount in any    *)
(* order.                                                                  *)
(***************************************************************************)
NextBinding ==
    \/ UsePhysicsEffect
    \/ UploadLayer
    \/ \E p \in Points : DropLayer(p)
    \/ DeleteLayer
    \/ \E id \in LayerIds : ToggleVisibility(id)
    \/ \E id \in LayerIds, force \in RandomForces : CreateBody(id, force)
    \/ \E drift \in Drifts : Tick(drift)

SpecBinding == InitWorld /\ [][NextBinding]_vars

(***************************************************************************)
(* The bodies of the bindings: layers are added, hidden, shown, deleted    *)
(* and restored, and assets are dragged, before and after the engine       *)
(* exists, while timers expire and the simulation ticks.                   *)
(***************************************************************************)
NextBodies ==
    \/ UsePhysicsEffect
    \/ UploadLayer
    \/ \E p \in Points : DropLayer(p)
    \/ DeleteLayer
    \/ Undo
    \/ \E id \in LayerIds : ToggleVisibility(id)
    \/ \E id \in LayerIds, force \in RandomForces : CreateBody(id, force)
    \/ \E drift \in Drifts : Tick(drift)
    \/ \E id \in LayerIds, p \in Points : AssetPointerDown(id, p)
    \/ \E id \in LayerIds, p \in Points : AssetPointerMove(id, p)
    \/ \E id \in LayerIds, p \in Points : AssetPointerUp(id, p)

SpecBodies == InitWorld /\ [][NextBodies]_vars

(***************************************************************************)
(* The stored position of a layer.  The start is the state of the          *)
(* application after one upload, the expiry of the creation timer and one  *)
(* complete drag of the asset from p to q; from there the asset is dragged *)
(* again, hidden and shown, its parameters are edited, its source is       *)
(* replaced and the simulation ticks.                                      *)
(***************************************************************************)
Dragged(p, q, force) ==
    LET x == RDiv(RSub(Rat(InnerWidth, 2), InitialCamera.x), InitialCamera.z)
        y == RDiv(RSub(Rat(InnerHeight, 2), InitialCamera.y), InitialCamera.z)
        created == ApplyForce(Rectangle(x, y, RMul(RInt(AssetWidth), InitialCamera.z),
                                        RMul(RInt(AssetHeight), InitialCamera.z), FALSE), force)
        drag == [active |-> TRUE, startX |-> p.x, startY |-> p.y, bodyX |-> x, bodyY |-> y]
        held == [created EXCEPT !.isStatic = TRUE, !.angularVelocity = 0, !.velocity = Vec(0, 0),
                                !.position = DraggedTo(drag, q, InitialCamera)]
    IN  /\ CamInit
        /\ layers = <<createLayer(1, 1, x, y)>>
        /\ nextLayerId = 2
        /\ nextUrl = 2
        /\ selectedLayerId = 1
        /\ prevLayersRef = <<>>
        /\ PipeInit
        /\ engine = TRUE
        /\ bodies = Append(Walls, ApplyForce([held EXCEPT !.isStatic = FALSE], Vec(0, 20)))
        /\ world = DOMAIN Walls \cup {Len(Walls) + 1}
        /\ timer = [id \in LayerIds |-> FALSE]
        /\ bodyRef = [id \in LayerIds |-> IF id = 1 THEN Len(Walls) + 1 ELSE 0]
        /\ dragInfo = [id \in LayerIds |-> IF id = 1 THEN [drag EXCEPT !.active = FALSE] ELSE NoDrag]
        /\ position = [id \in LayerIds |-> IF id = 1 THEN Vec(x, y) ELSE RVec(0, 0)]
        /\ listener = [id \in LayerIds |-> id = 1]

InitPosition ==
    /\ PixIdle
    /\ \E p \in Points, q \in Points, force \in RandomForces : p # q /\ Dragged(p, q, force)
    /\ ObsInit

NextPosition ==
    \/ \E id \in LayerIds : ToggleVisibility(id)
    \/ \E id \in LayerIds, force \in RandomForces : CreateBody(id, force)
    \/ \E drift \in Drifts : Tick(drift)
    \/ \E id \in LayerIds, p \in Points : AssetPointerDown(id, p)
    \/ \E id \in LayerIds, p \in Points : AssetPointerMove(id, p)
    \/ \E id \in LayerIds, p \in Points : AssetPointerUp(id, p)
    \/ \E pct \in PixelScales : ChangePixelScale(pct)
    \/ \E pct \in Opacities : ChangeOpacity(pct)
    \/ ReplaceSource

SpecPosition == InitPosition /\ [][NextPosition]_vars

(***************************************************************************)
(* Assets placed, simulated and dragged under the initial camera and under *)
(* the cameras at the two zoom limits.                                     *)
(***************************************************************************)
\* the camera after zooming out to the limit around the viewport centre
ZoomedOutCamera ==
    [x |-> RSub(InitialCamera.x, RMul(RSub(InitialCamera.x, Rat(InnerWidth, 2)), RSub(RInt(1), MIN_ZOOM))),
     y |-> RSub(InitialCamera.y, RMul(RSub(InitialCamera.y, Rat(InnerHeight, 2)), RSub(RInt(1), MIN_ZOOM))),
     z |-> MIN_ZOOM]

InitWalls ==
    /\ PixIdle
    /\ camera \in CameraStarts \cup {ZoomedOutCamera}
    /\ cameraRef = camera
    /\ isSpaceDown = FALSE
    /\ isDragging = FALSE
    /\ lastMousePos = [x |-> 0, y |-> 0]
    /\ capture = 0
    /\ LayerInit
    /\ PipeInit
    /\ WorldReady
    /\ BindInit
    /\ ObsInit

NextWalls ==
    \/ UploadLayer
    \/ \E p \in Points : DropLayer(p)
    \/ DeleteLayer
    \/ \E id \in LayerIds, force \in RandomForces : CreateBody(id, force)
    \/ \E drift \in Drifts : Tick(drift)
    \/ \E id \in LayerIds, p \in Points : AssetPointerDown(id, p)
    \/ \E id \in LayerIds, p \in Points : AssetPointerMove(id, p)
    \/ \E id \in LayerIds, p \in Points : AssetPointerUp(id, p)

SpecWalls == InitWalls /\ [][NextWalls]_vars

(***************************************************************************)
(* The application: camera, layers, bindings and the simulation, from the  *)
(* state in which App is mounted and its effects have run.                 *)
(***************************************************************************)
Init ==
    /\ PixIdle
    /\ CamInit
    /\ LayerInit
    /\ PipeInit
    /\ WorldReady
    /\ BindInit
    /\ ObsInit

Next ==
    \/ \E p \in Points, delta \in WheelDeltas : WheelZoom(p, delta)
    \/ \E p \in Points, delta \in WheelDeltas : WheelPan(p, delta)
    \/ ResetZoom
    \/ \E down \in BOOLEAN : SpaceKey(down)
    \/ \E p \in Points, button \in Buttons : CanvasPointerDown(p, button)
    \/ \E p \in Points : CanvasPointerMove(p)
    \/ \E p \in Points : CanvasPointerUp(p)
    \/ Render
    \/ UploadLayer
    \/ \E p \in Points : DropLayer(p)
    \/ DeleteLayer
    \/ \E id \in LayerIds : ToggleVisibility(id)
    \/ \E id \in LayerIds, force \in RandomForces : CreateBody(id, force)
    \/ \E drift \in Drifts : Tick(drift)
    \/ \E id \in LayerIds, p \in Points : AssetPointerDown(id, p)
    \/ \E id \in LayerIds, p \in Points : AssetPointerMove(id, p)
    \/ \E id \in LayerIds, p \in Points : AssetPointerUp(id, p)

Spec == Init /\ [][Next]_vars

(***************************************************************************)
(* The effect pipeline: layers are added, armed, disarmed, re-parametrised,*)
(* replaced, deleted and restored while image loads complete in any order. *)
(***************************************************************************)
NextPipeline ==
    \/ UploadLayer
    \/ DeleteLayer
    \/ Undo
    \/ \E type \in EffectTypes : ClickEffect(type)
    \/ RemoveEffect
    \/ \E pct \in PixelScales : ChangePixelScale(pct)
    \/ ReplaceSource
    \/ \E r \in RunIds : ImageLoaded(r)
    \/ \E r \in RunIds : ImageFailed(r)

SpecPipeline == Init /\ [][NextPipeline]_vars

(***************************************************************************)
(* The runs of the pipeline: every control of the side panel and of the    *)
(* layer list is used while image loads end.  The browser fires load or    *)
(* error for every image whose src was set, hence the fairness condition.  *)
(***************************************************************************)
NextRuns ==
    \/ UploadLayer
    \/ \E type \in EffectTypes : ClickEffect(type)
    \/ RemoveEffect
    \/ \E pct \in PixelScales : ChangePixelScale(pct)
    \/ \E pct \in Contrasts : ChangeContrast(pct)
    \/ \E v \in LayerAccents : ChangeAccentColor(v)
    \/ \E pct \in Opacities : ChangeOpacity(pct)
    \/ \E id \in LayerIds : Rename(id)
    \/ \E id \in {0} \cup LayerIds : Select(id)
    \/ ReplaceSource
    \/ \E r \in RunIds : ImageLoaded(r)
    \/ \E r \in RunIds : ImageFailed(r)

\* error or load of the image of some run fires
LoadEnds == \E r \in RunIds : ImageFailed(r) \/ ImageLoaded(r)

SpecRuns == Init /\ [][NextRuns]_vars /\ WF_vars(LoadEnds)

(***************************************************************************)
(* Properties of the pixel functions (checked under SpecPixels).           *)
(***************************************************************************)
PixelIds(d) == 0..(NumPixels(d) - 1)
Red(d, p) == Load(d, 4 * p)
Green(d, p) == Load(d, 4 * p + 1)
Blue(d, p) == Load(d, 4 * p + 2)
Alpha(d, p) == Load(d, 4 * p + 3)
Pixel(d, p) == <<Red(d, p), Green(d, p), Blue(d, p), Alpha(d, p)>>

\* every R, G, B channel of d is 0 or 255
OneBit(d) == \A p \in PixelIds(d) : {Red(d, p), Green(d, p), Blue(d, p)} \subseteq {0, 255}

\* every pixel of d is the grey (v, v, v)
UniformGrey(d, v) == \A p \in PixelIds(d) : Red(d, p) = v /\ Green(d, p) = v /\ Blue(d, p) = v

AllBlack(d) == \A p \in PixelIds(d) : Red(d, p) = 0 /\ Green(d, p) = 0 /\ Blue(d, p) = 0

\* the pixels that are not on the border of the bitmap
Interior(w, h) == { p \in 0..(w * h - 1) : (p % w) \in 1..(w - 2) /\ (p \div w) \in 1..(h - 2) }

\* C1: after applyAtkinsonDither returns, every pixel has R = G = B and that
\* value is 0 or 255.
C1_DitherOutputOneBit ==
    pixPc = "dithered" =>
        \A p \in PixelIds(imageData.data) :
            /\ Red(imageData.data, p) = Green(imageData.data, p)
            /\ Green(imageData.data, p) = Blue(imageData.data, p)
            /\ Red(imageData.data, p) \in {0, 255}

\* a dithered 3x3 or larger bitmap of intermediate greys that came out mixed
C1_Witness ==
    /\ pixPc = "dithered"
    /\ imageData.width >= 3 /\ imageData.height >= 3
    /\ \E p \in PixelIds(source) : Red(source, p) \in 1..254
    /\ \E p, q \in PixelIds(imageData.data) :
          Red(imageData.data, p) = 0 /\ Red(imageData.data, q) = 255

\* C2: at every step of applyAtkinsonDither and after it returns, every
\* channel of every pixel is within [0, 255], pixels that received diffused
\* error and are not yet visited included.
C2_ChannelsInRange ==
    pixPc \in {"diffuse", "dithered"} =>
        \A k \in 1..Len(imageData.data) : imageData.data[k] \in 0..255

\* mid-pass, a pixel not yet visited whose R was pushed to 255 by diffused
\* error while its G still holds the luminance
C2_Witness ==
    /\ pixPc = "diffuse"
    /\ \E p \in PixelIds(imageData.data) :
          /\ p > ditherY * imageData.width + ditherX
          /\ Red(imageData.data, p) = 255
          /\ Green(imageData.data, p) < 255

\* C3 as stated: on a 1-bit bitmap, applyColorMap twice with the same accent
\* gives the same bitmap as once, for any accent colour.
C3_ColorMapIdempotent ==
    (pixPc = "mapped2" /\ OneBit(preMap)) => imageData.data = mapOnce

\* C3 amended: on a 1-bit bitmap, applyColorMap twice with the same accent
\* gives the same bitmap as once when the red component of the parsed accent
\* is below 128.
C3_ColorMapIdempotentDarkRed ==
    (pixPc = "mapped2" /\ OneBit(preMap) /\ hexToRgb(accentColor).r < 128)
        => imageData.data = mapOnce

\* a 1-bit bitmap with black and white pixels, mapped twice with #0099ff
C3_Witness ==
    /\ pixPc = "mapped2"
    /\ OneBit(preMap)
    /\ accentColor = <<"#", "0", "0", "9", "9", "f", "f">>
    /\ \E p, q \in PixelIds(preMap) : Red(preMap, p) = 0 /\ Red(preMap, q) = 255
    /\ imageData.data = mapOnce

\* C4 as stated, in its weakest reading: a uniform grey V below the
\* threshold dithers to black at least at every interior pixel.
C4_UniformBelowThresholdBlack ==
    (pixPc = "dithered" /\ \E v \in 0..255 : UniformGrey(source, v) /\ RLess(RInt(v), threshold))
        => \A p \in Interior(imageData.width, imageData.height) :
              Red(imageData.data, p) = 0 /\ Green(imageData.data, p) = 0 /\ Blue(imageData.data, p) = 0

\* C4 amended: a uniform grey V with 4V + 12 below the threshold dithers to
\* solid black, every pixel.
C4_UniformFarBelowThresholdBlack ==
    (pixPc = "dithered"
        /\ \E v \in 0..255 : UniformGrey(source, v) /\ RLess(RInt(4 * v + 12), threshold))
        => AllBlack(imageData.data)

\* a uniform non-black 3x3 or larger bitmap far below the threshold, dithered
C4_Witness ==
    /\ pixPc = "dithered"
    /\ imageData.width >= 3 /\ imageData.height >= 3
    /\ \E v \in 1..255 : UniformGrey(source, v) /\ RLess(RInt(4 * v + 12), threshold)
    /\ AllBlack(imageData.data)

\* the accent colours of the model, parsed by hand
ExpectedRgb(accent) ==
    CASE accent = <<"#", "1", "A", "2", "B", "3", "C">> -> <<26, 43, 60>>
      [] accent = <<"#", "F", "F", "0", "0", "0", "0">> -> <<255, 0, 0>>
      [] accent = <<"#", "0", "0", "9", "9", "f", "f">> -> <<0, 153, 255>>
      [] accent = <<"1", "a", "2", "b", "3", "c">> -> <<26, 43, 60>>
      [] OTHER -> <<0, 0, 0>>

\* C5: applyColorMap maps each pixel on its own: first channel < 128 gives
\* the parsed accent colour with alpha 255, otherwise RGB is unchanged and
\* alpha is 0.
C5_ColorMapPerPixel ==
    pixPc = "mapped" =>
        \A p \in PixelIds(preMap) :
            IF Red(preMap, p) < 128
            THEN Pixel(imageData.data, p) = ExpectedRgb(accentColor) \o <<255>>
            ELSE Pixel(imageData.data, p) = <<Red(preMap, p), Green(preMap, p), Blue(preMap, p), 0>>

\* the 1x1 black pixel mapped with #1A2B3C
C5_Witness ==
    /\ pixPc = "mapped"
    /\ preMap = <<0, 0, 0, 255>>
    /\ accentColor = <<"#", "1", "A", "2", "B", "3", "C">>
    /\ imageData.data = <<26, 43, 60, 255>>

(***************************************************************************)
(* Properties of the camera, checked under SpecCamera.                     *)
(***************************************************************************)
\* the world point that camera cam shows at screen point (cx, cy)
WorldPoint(cam, cx, cy) ==
    Vec(RDiv(RSub(RInt(cx), cam.x), cam.z), RDiv(RSub(RInt(cy), cam.y), cam.z))

ZoomInRange(cam) == RLeq(MIN_ZOOM, cam.z) /\ RLeq(cam.z, MAX_ZOOM)

\* C6: after a wheel-zoom at screen point P, in either direction and also
\* when the new zoom is clamped at a limit, the world point that the
\* rendered camera showed at P before the zoom is still shown at P:
\* (P - x') / z' = (P - x) / z.
C6_ZoomKeepsCursorPoint ==
    lastEvent.type = "zoom" =>
        /\ ZoomInRange(cameraRef)
        /\ WorldPoint(camera, lastEvent.clientX, lastEvent.clientY)
              = WorldPoint(cameraRef, lastEvent.clientX, lastEvent.clientY)

\* C6 witness: a zoom in that reached MAX_ZOOM from a smaller zoom and moved the camera
C6_Witness ==
    /\ lastEvent.type = "zoom"
    /\ camera.z = MAX_ZOOM
    /\ cameraRef.z # MAX_ZOOM
    /\ camera.x # cameraRef.x

\* C7: in every reachable state the zoom of the camera, and of the rendered
\* camera, is at least MIN_ZOOM (0.1) and at most MAX_ZOOM (16), whatever
\* drag-pans, wheel-pans, wheel-zooms and zoom resets came before.
C7_ZoomInRange ==
    /\ ZoomInRange(camera)
    /\ ZoomInRange(cameraRef)
    /\ MIN_ZOOM = Rat(1, 10)
    /\ MAX_ZOOM = Rat(16, 1)

\* C7 witness: a zoom in at MAX_ZOOM and a zoom out at MIN_ZOOM leave the zoom at the limit
C7_Witness ==
    /\ lastEvent.type = "zoom"
    /\ cameraRef.z \in {MAX_ZOOM, MIN_ZOOM}
    /\ camera.z = cameraRef.z

(***************************************************************************)
(* Properties of usePhysics, checked under SpecWorld.                      *)
(***************************************************************************)
\* C8: removeElement(b) right after b = addElement(w, h, x, y) leaves the
\* bodies of the world as they were before the addElement call; and
\* removeElement with a handle that is not in the world (already removed
\* or never added), with a falsy handle, or before the engine exists,
\* changes nothing and does not throw.
C8_RemoveElementUndoesAdd ==
    lastEvent.type = "removeElement" =>
        /\ (api.prev.op = "addElement" /\ api.prev.result # 0 /\ api.handle = api.prev.result)
              => world = api.prev.world
        /\ (api.handle = 0 \/ api.handle \notin api.world \/ ~engine)
              => (world = api.world /\ bodies = api.bodies)
        /\ threw = "none"

\* C8 witness: a body was added to a world that holds the walls and another body, then removed
C8_Witness ==
    /\ lastEvent.type = "removeElement"
    /\ api.prev.op = "addElement"
    /\ api.prev.result # 0
    /\ api.handle = api.prev.result
    /\ Cardinality(world) > Len(Walls)
    /\ world # api.world

(***************************************************************************)
(* Properties of the bindings, checked under Spec.                         *)
(***************************************************************************)
\* C9: no transition of a binding (pointer-down, pointer-move, pointer-up,
\* per-tick sync, unmount) throws when its body or the engine is absent.
C9_NoTransitionThrows == threw = "none"

\* C10: while an asset is dragged, after every pointer-move its body is at
\* (body position recorded at pointer-down) + (pointer position - pointer
\* position recorded at pointer-down) / z, with z the zoom of the camera
\* the binding was rendered with.
C10_DragTracksPointer ==
    \A id \in LayerIds :
        (lastEvent.type = "assetmove" /\ lastEvent.target = id /\ dragInfo[id].active) =>
            LET body == bodies[bodyRef[id]]
                dx == RDiv(RInt(lastEvent.clientX - dragInfo[id].startX), cameraRef.z)
                dy == RDiv(RInt(lastEvent.clientY - dragInfo[id].startY), cameraRef.z)
            IN  /\ RSub(body.position.x, dragInfo[id].bodyX) = dx
                /\ RSub(body.position.y, dragInfo[id].bodyY) = dy
                /\ body.isStatic

\* C10 witness: a pointer-move of a drag, away from where the drag started, at a zoom other than 1
C10_Witness ==
    \E id \in LayerIds :
        /\ lastEvent.type = "assetmove"
        /\ lastEvent.target = id
        /\ dragInfo[id].active
        /\ lastEvent.clientX # dragInfo[id].startX
        /\ cameraRef.z # RInt(1)
        /\ bodies[bodyRef[id]].position.x # dragInfo[id].bodyX

(***************************************************************************)
(* Properties of the bindings before and after the engine exists, checked  *)
(* under SpecBinding.                                                      *)
(***************************************************************************)
\* C11: a binding that is not rendered has no pending body-creation timer,
\* and every body of the world other than the walls is the body of a
\* rendered binding: unmounting before the 50 ms timer fires cancels it and
\* no body of that binding is ever added, in any order of mount, engine
\* initialisation, timer expiry and unmount.
C11_NoOrphanBody ==
    /\ \A id \in LayerIds : ~Mounted(id) => ~timer[id]
    /\ \A b \in world : b \in DOMAIN Walls \/ \E id \in LayerIds : Mounted(id) /\ bodyRef[id] = b

\* C11 witness: with the engine there, a binding was hidden before its timer
\* had fired, and no body has been created
C11_Witness ==
    /\ lastEvent.type = "visibility"
    /\ engine
    /\ ~Mounted(lastEvent.target)
    /\ HasLayer(lastEvent.target)
    /\ Len(bodies) = Len(Walls)
    /\ world = DOMAIN Walls

(***************************************************************************)
(* The effect pipeline.                                                    *)
(***************************************************************************)
\* the last step was the end of the load of run r
LoadEnded(r) ==
    /\ r \in DOMAIN runs
    /\ lastEvent.target = r
    /\ lastEvent.type = runs[r].state
    /\ runs[r].state \notin {"loading", "error"}

Degenerate(run) == scaledWidth(run) < 1 \/ scaledHeight(run) < 1

\* C12: runs are neither cancelled nor version-checked: when the image of a
\* run loads while its instance is mounted and the image scales to at least
\* one pixel, the layer's processedUrl becomes the result of that run, however
\* many newer runs of the layer exist or have completed (last completion wins)
C12_LastCompletionWins ==
    \A r \in RunIds :
        LoadEnded(r) /\ effectInst[runs[r].layer] = runs[r].inst /\ ~Degenerate(runs[r])
            => /\ runs[r].state = "delivered"
               /\ Layer(runs[r].layer).processedUrl = Exported(runs[r])

\* C12: an older run completed after a newer run of the same instance and its
\* result replaced the newer one
C12_Witness ==
    \E r \in RunIds, newer \in RunIds :
        /\ LoadEnded(r) /\ newer \in DOMAIN runs /\ r < newer
        /\ runs[newer].layer = runs[r].layer /\ runs[newer].inst = runs[r].inst
        /\ runs[newer].state = "delivered" /\ runs[r].state = "delivered"
        /\ runs[r].prior = Exported(runs[newer])
        /\ Exported(runs[r]) # Exported(runs[newer])
        /\ runs[r].pixelScale # Layer(runs[r].layer).pixelScale
        /\ Layer(runs[r].layer).processedUrl = Exported(runs[r])

\* C13: a run whose image scales to less than one pixel in width or height
\* ends without a call of onProcessed, and the layer's processedUrl is the
\* one it had before
C13_DegenerateScaleAborts ==
    \A r \in RunIds :
        LoadEnded(r) /\ Degenerate(runs[r])
            => /\ runs[r].state # "delivered"
               /\ runs[r].reported = "nothing"
               /\ Layer(runs[r].layer).processedUrl = runs[r].prior

\* C13: a run of a mounted instance was aborted for its scaled size and the
\* layer kept the processed image of an earlier run
C13_Witness ==
    \E r \in RunIds :
        /\ LoadEnded(r) /\ Degenerate(runs[r]) /\ runs[r].state = "aborted"
        /\ effectInst[runs[r].layer] = runs[r].inst
        /\ runs[r].prior # NoUrl
        /\ Layer(runs[r].layer).processedUrl = runs[r].prior

(***************************************************************************)
(* The walls.                                                              *)
(***************************************************************************)
\* C14: every dynamic body of an asset lies in the region enclosed by the
\* four walls
C14_DynamicBodiesInsideWalls ==
    \A id \in LayerIds :
        bodyRef[id] # 0 /\ ~bodies[bodyRef[id]].isStatic => InsideWalls(bodies[bodyRef[id]].position)

(***************************************************************************)
(* Further properties of the pixel functions, checked under SpecPixels.    *)
(***************************************************************************)
\* C15: after applyAtkinsonDither the first pixel is 0 when the luminance the
\* greyscale pass stored for it is below the threshold and 255 otherwise,
\* whatever the other pixels of the bitmap are
C15_FirstPixelDeterministic ==
    pixPc = "dithered" =>
        LET new == IF RLess(RInt(Luma(source, 0)), threshold) THEN 0 ELSE 255
        IN  Red(imageData.data, 0) = new /\ Green(imageData.data, 0) = new /\ Blue(imageData.data, 0) = new

\* C15: a dithered bitmap of two colours whose first pixel, exactly at the
\* threshold, came out white while a darker pixel came out black
C15_Witness ==
    /\ pixPc = "dithered"
    /\ imageData.width >= 2 /\ imageData.height >= 2
    /\ threshold = RInt(128) /\ Luma(source, 0) = 128
    /\ Red(imageData.data, 0) = 255
    /\ \E p \in PixelIds(source) : Luma(source, 4 * p) < 128 /\ Red(imageData.data, p) = 0
\* accent strings that are not six hex digits with an optional leading #
MalformedAccents ==
    { <<>>, <<"#", "f", "f", "f">>, <<"#", "1", "2", "3", "4", "5", "g">> }

\* C16: applyColorMap with a malformed accent returns, and every pixel whose
\* first channel is below 128 becomes (0, 0, 0, 255)
C16_MalformedAccentMapsToBlack ==
    (pixPc = "mapped" /\ accentColor \in MalformedAccents) =>
        /\ Len(imageData.data) = Len(preMap)
        /\ \A p \in PixelIds(preMap) :
              Red(preMap, p) < 128 => Pixel(imageData.data, p) = <<0, 0, 0, 255>>

\* C16: a bitmap with a non-black pixel below 128 and a pixel at or above 128,
\* mapped with '#fff', with the empty string, or with '#12345g'
C16_Witness ==
    /\ pixPc = "mapped"
    /\ accentColor \in MalformedAccents
    /\ \E p, q \in PixelIds(preMap) :
          /\ Red(preMap, p) \in 1..127 /\ Red(preMap, q) >= 128
          /\ Pixel(imageData.data, p) = <<0, 0, 0, 255>>
          /\ Alpha(imageData.data, q) = 0

\* C17: the 4x4 bitmap of (10, 10, 10, 255) dithered at threshold 128 has
\* every pixel's RGB at (0, 0, 0), and mapped with #FF0000 after that it has
\* every pixel at (255, 0, 0, 255)
C17_DarkBitmapDithersBlackMapsRed ==
    (/\ imageData.width = 4 /\ imageData.height = 4
     /\ \A p \in PixelIds(source) : Pixel(source, p) = <<10, 10, 10, 255>>
     /\ threshold = RInt(128))
        => /\ pixPc = "dithered" => AllBlack(imageData.data)
           /\ (pixPc = "mapped" /\ accentColor = <<"#", "F", "F", "0", "0", "0", "0">>)
                 => \A p \in PixelIds(imageData.data) : Pixel(imageData.data, p) = <<255, 0, 0, 255>>

\* C17: that bitmap, dithered and then mapped with #FF0000
C17_Witness ==
    /\ imageData.width = 4 /\ imageData.height = 4
    /\ \A p \in PixelIds(source) : Pixel(source, p) = <<10, 10, 10, 255>>
    /\ threshold = RInt(128)
    /\ pixPc = "mapped"
    /\ AllBlack(preMap)
    /\ accentColor = <<"#", "F", "F", "0", "0", "0", "0">>
    /\ \A p \in PixelIds(imageData.data) : Pixel(imageData.data, p) = <<255, 0, 0, 255>>

(***************************************************************************)
(* Further properties of the effect pipeline, checked under SpecPipeline.  *)
(***************************************************************************)
\* C18: a run whose image failed to load or decode has reported the failure
\* to its caller, and has delivered nothing through onProcessed
C18_LoadFailureReported ==
    \A r \in RunIds :
        (r \in DOMAIN runs /\ runs[r].state = "error")
            => /\ runs[r].reported = "error"
               /\ (lastEvent = Event("error", r, 0, 0)
                      => Layer(runs[r].layer).processedUrl = runs[r].prior)

\* C19: a layer whose effect is not armed has no processed image
C19_DisarmedLayerHasNoProcessedUrl ==
    \A i \in DOMAIN layers : ~layers[i].effectEnabled => layers[i].processedUrl = NoUrl

\* C19: the image of a run loaded after its layer was disarmed, a layer that
\* had a processed image from an earlier run, and the layer has none now
C19_Witness ==
    \E r \in RunIds, earlier \in RunIds :
        /\ LoadEnded(r) /\ runs[r].state = "dropped" /\ ~Degenerate(runs[r])
        /\ earlier \in DOMAIN runs /\ runs[earlier].layer = runs[r].layer
        /\ runs[earlier].state = "delivered"
        /\ HasLayer(runs[r].layer)
        /\ ~Layer(runs[r].layer).effectEnabled
        /\ Layer(runs[r].layer).processedUrl = NoUrl

(***************************************************************************)
(* Further properties of the bindings, checked under Spec.                 *)
(***************************************************************************)
\* C20: while the pointer that went down on an asset is held, the asset's
\* body is static with zero velocity and zero angular velocity; right after
\* the pointer-up the body is dynamic again
C20_HeldBodyIsStatic ==
    \A id \in LayerIds :
        /\ (capture = id /\ bodyRef[id] # 0)
              => /\ bodies[bodyRef[id]].isStatic
                 /\ bodies[bodyRef[id]].velocity = Vec(0, 0)
                 /\ bodies[bodyRef[id]].angularVelocity = 0
        /\ (lastEvent.type = "assetup" /\ lastEvent.target = id /\ bodyRef[id] # 0)
              => ~bodies[bodyRef[id]].isStatic

(***************************************************************************)
(* The end of a binding, checked under Spec.                               *)
(***************************************************************************)
\* C21: the step that unmounts a binding takes its body out of the world,
\* unregisters its listener and cancels its timer; while the binding stays
\* unmounted no step (a tick included) changes its published position, its
\* body reference, its listener, its timer or its drag state, and a body
\* that was taken out of the world never comes back into it
C21_UnmountIsTerminal ==
    [][/\ \A b \in DOMAIN bodies : b \notin world => b \notin world'
       /\ \A id \in LayerIds :
          /\ (Mounted(id) /\ ~Mounted(id)')
                => /\ bodyRef[id] \notin world'
                   /\ ~listener'[id] /\ ~timer'[id] /\ bodyRef'[id] = 0
                   /\ capture' # id
          /\ (~Mounted(id) /\ ~Mounted(id)')
                => /\ position'[id] = position[id]
                   /\ bodyRef'[id] = bodyRef[id]
                   /\ listener'[id] = listener[id]
                   /\ timer'[id] = timer[id]
                   /\ dragInfo'[id] = dragInfo[id]]_vars

\* C21: a binding was hidden while it was dragged, and a tick followed: its
\* body, still static, is out of the world and nothing is registered for it
C21_Witness ==
    \E id \in LayerIds :
        /\ lastEvent.type = "tick"
        /\ HasLayer(id) /\ ~Mounted(id)
        /\ \E b \in DOMAIN bodies : b \notin DOMAIN Walls /\ b \notin world /\ bodies[b].isStatic
        /\ bodyRef[id] = 0 /\ ~listener[id] /\ ~timer[id]
        /\ position[id] = RVec(0, 0)

(***************************************************************************)
(* The cells the diffusion writes, checked under SpecPixels.               *)
(***************************************************************************)
\* the six cells of the Atkinson kernel of (x, y) that lie in a w x h bitmap
KernelCells(w, h, x, y) ==
    { c \in { <<x + 1, y>>, <<x + 2, y>>, <<x - 1, y + 1>>, <<x, y + 1>>, <<x + 1, y + 1>>, <<x, y + 2>> } :
        c[1] >= 0 /\ c[1] < w /\ c[2] >= 0 /\ c[2] < h }

\* C22: the step that visits pixel (x, y) adds (old - new) / 8 to the stored
\* value of each in-bounds cell of its kernel, changes no other pixel than
\* (x, y) itself, and leaves the length of the buffer as it was
C22_ErrorGoesToKernelCells ==
    [][pixPc = "diffuse" =>
          LET w == imageData.width
              h == imageData.height
              d == imageData.data
              e == imageData'.data
              old == Load(d, (ditherY * w + ditherX) * 4)
              quantError == old - Quantise(old, threshold)
          IN  /\ Len(e) = Len(d)
              /\ \A p \in 0..(w * h - 1) :
                    IF <<p % w, p \div w>> \in KernelCells(w, h, ditherX, ditherY)
                    THEN /\ Red(e, p) = ToUint8Clamp(8 * Red(d, p) + quantError, 8)
                         /\ Green(e, p) = Green(d, p) /\ Blue(e, p) = Blue(d, p) /\ Alpha(e, p) = Alpha(d, p)
                    ELSE p # ditherY * w + ditherX => Pixel(e, p) = Pixel(d, p)]_vars

\* C22: the last pixel of the first row of a bitmap at least three wide and
\* two high was visited with an error of at least 8, and the first and the
\* last pixel of the second row have received error from the first row
C22_Witness ==
    /\ pixPc = "diffuse" /\ ditherX = 0 /\ ditherY = 1
    /\ imageData.width >= 3 /\ imageData.height >= 2
    /\ Luma(source, 4 * (imageData.width - 1)) \in 8..247
    /\ threshold = RInt(1280)
    /\ Red(imageData.data, imageData.width - 1) = 0
    /\ Red(imageData.data, imageData.width) # Luma(source, 4 * imageData.width)
    /\ Red(imageData.data, 2 * imageData.width - 1) # Luma(source, 4 * (2 * imageData.width - 1))

(***************************************************************************)
(* The camera and the simulation, checked under Spec.                      *)
(***************************************************************************)
\* C23: a pan or a zoom, and the render that follows it, leave the world,
\* every body (position, velocity, static flag, size), every body reference,
\* every creation timer and every published position as they were
C23_CameraLeavesBodiesAlone ==
    [][((camera' # camera /\ assetSteps' = assetSteps) \/ cameraRef' # cameraRef)
          => UNCHANGED <<world, bodies, bodyRef, timer, listener, position>>]_vars

\* C23: an asset whose body was measured at zoom 1 was rendered again at
\* another zoom; its body is in the world with the size it had, and no
\* creation timer is pending
C23_Witness ==
    \E id \in LayerIds :
        /\ lastEvent.type = "render"
        /\ cameraRef.z # RInt(1)
        /\ Mounted(id) /\ bodyRef[id] # 0 /\ bodyRef[id] \in world
        /\ bodies[bodyRef[id]].width = RInt(AssetWidth)
        /\ ~timer[id]

(***************************************************************************)
(* Undo, checked under SpecPipeline.                                       *)
(***************************************************************************)
\* C24: Ctrl/Cmd+Z pressed right after an add or a delete of a layer leaves
\* the layer list that the add or the delete found, the empty list included
C24_UndoRestoresLayers ==
    [][(lastEvent.type \in {"upload", "drop", "delete"} /\ lastEvent'.type = "undo")
          => layers' = lastEvent.layers]_vars

(***************************************************************************)
(* Camera updates, checked under SpecCamera.                               *)
(***************************************************************************)
\* C25: every wheel-zoom, wheel-pan and drag-pan acts on the camera that the
\* events before it produced, whether or not a render came in between, so
\* that the camera is the result of all events applied in arrival order
C25_CameraUpdatesNotLost ==
    [][/\ lastEvent'.type = "zoom"
            => \E delta \in WheelDeltas :
                  camera' = Zoomed(camera, lastEvent'.clientX, lastEvent'.clientY, delta.y)
       /\ lastEvent'.type = "wheelpan"
            => \E delta \in WheelDeltas :
                  camera' = [camera EXCEPT !.x = RSub(camera.x, RInt(delta.x)),
                                           !.y = RSub(camera.y, RInt(delta.y))]
       /\ (lastEvent'.type = "canvasmove" /\ isDragging)
            => camera' = PannedBy(camera, [x |-> lastEvent'.clientX, y |-> lastEvent'.clientY])]_vars

(***************************************************************************)
(* Runs that outlive their instance, checked under SpecPipeline.           *)
(***************************************************************************)
\* C26: when the load of a run ends, by success or by failure, after the
\* EffectEngine instance that started it was unmounted (its layer disarmed
\* or deleted), onProcessed is not called, nothing is thrown and no layer
\* changes, so that no processedUrl is set by the run
C26_UnmountedRunDeliversNothing ==
    [][\A r \in RunIds :
          (/\ r \in DOMAIN runs /\ runs[r].state = "loading"
           /\ effectInst[runs[r].layer] # runs[r].inst
           /\ runs'[r].state # "loading")
              => /\ runs'[r].reported = "nothing"
                 /\ layers' = layers
                 /\ threw' = threw]_vars

\* C26: the image of a run loaded at a size of at least one pixel after its
\* layer was disarmed and armed again, so that the layer has a newer instance
\* with a run of its own, and the layer has no processed image
C26_Witness ==
    \E r \in RunIds, newer \in RunIds :
        /\ LoadEnded(r) /\ runs[r].state = "dropped" /\ ~Degenerate(runs[r])
        /\ newer \in DOMAIN runs /\ runs[newer].layer = runs[r].layer
        /\ runs[newer].inst # runs[r].inst /\ effectInst[runs[r].layer] = runs[newer].inst
        /\ Layer(runs[r].layer).effectEnabled
        /\ runs[r].reported = "nothing"
        /\ Layer(runs[r].layer).processedUrl = NoUrl

(***************************************************************************)
(* What starts a run, checked under SpecRuns.                              *)
(***************************************************************************)
\* src, effectType, pixelScale, contrast or accentColor differ
InputsDiffer(old, new) ==
    \/ old.originalUrl # new.originalUrl
    \/ old.effectType # new.effectType
    \/ old.pixelScale # new.pixelScale
    \/ old.contrast # new.contrast
    \/ old.accentColor # new.accentColor

\* C27: a step starts a run only for a layer whose EffectEngine it mounts or
\* whose src, effectType, pixelScale, contrast or accentColor it changes; the
\* end of a load, delivery of its result included, and a change of opacity,
\* name or selection start none; and once the user's input is over the loads
\* end and no run is left loading
C27_RunsStartOnlyOnMountOrInput ==
    /\ [][/\ Len(runs') >= Len(runs)
          /\ \A r \in RunIds :
                (r > Len(runs) /\ r <= Len(runs'))
                    => \E id \in LayerIds :
                          /\ runs'[r].layer = id
                          /\ \/ effectInst[id] = 0 /\ effectInst'[id] # 0
                             \/ InputsDiffer(Layer(id), Layer(id)')
          /\ lastEvent'.type \in {"delivered", "dropped", "aborted", "error",
                                  "opacity", "rename", "select"}
                => Len(runs') = Len(runs)]_vars
    /\ <>[](\A r \in RunIds : r \in DOMAIN runs => runs[r].state # "loading")

\* C27: the only run of a layer delivered its result, and afterwards the
\* layer's opacity and name were changed: there is still one run, not loading
C27_Witness ==
    \E id \in LayerIds :
        /\ lastEvent.type = "rename" /\ lastEvent.target = id
        /\ Layer(id).name = "renamed" /\ Layer(id).opacity = 50
        /\ Layer(id).effectEnabled
        /\ Len(runs) = 1 /\ runs[1].layer = id /\ runs[1].state = "delivered"
        /\ Layer(id).processedUrl = Exported(runs[1])

(***************************************************************************)
(* The bodies of the world, checked under SpecBodies.                      *)
(***************************************************************************)
\* C28: every body of the world other than the four walls is the body of
\* exactly one rendered binding, there are no more such bodies than rendered
\* bindings, and the body of a binding that is not rendered is not in the world
C28_NoDuplicateNoOrphanBody ==
    /\ \A b \in world \ DOMAIN Walls :
          Cardinality({id \in LayerIds : Mounted(id) /\ bodyRef[id] = b}) = 1
    /\ Cardinality(world \ DOMAIN Walls) <= Cardinality({id \in LayerIds : Mounted(id)})
    /\ \A id \in LayerIds : ~Mounted(id) => bodyRef[id] \notin world

\* C28: a layer whose body existed was deleted and restored by undo, and the
\* timer of the restored binding created its body: the world holds the walls
\* and that second body, and the first body is gone from it
C28_Witness ==
    \E id \in LayerIds :
        /\ lastEvent.type = "timer" /\ lastEvent.target = id
        /\ Mounted(id) /\ selectedLayerId = 0 /\ prevLayersRef = <<>>
        /\ Len(bodies) = Len(Walls) + 2
        /\ bodyRef[id] = Len(bodies)
        /\ world = DOMAIN Walls \cup {Len(bodies)}

(***************************************************************************)
(* The stored position of a layer, checked under SpecPosition.             *)
(***************************************************************************)
\* C29: no step changes the x and y of a layer that exists before and after
\* it, whether it is a drag, a tick, a parameter edit, a replacement of the
\* source or a visibility toggle; and the body that the creation
\* timer of a binding creates lies at its layer's x and y
C29_LayerPositionIsFixed ==
    [][\A id \in LayerIds :
          /\ (HasLayer(id) /\ HasLayer(id)')
                => /\ (Layer(id).x)' = Layer(id).x
                   /\ (Layer(id).y)' = Layer(id).y
          /\ (lastEvent'.type = "timer" /\ lastEvent'.target = id)
                => bodies'[bodyRef'[id]].position = Vec(Layer(id).x, Layer(id).y)]_vars

\* C29: an asset that had been dragged away from where it was created was
\* hidden and shown again, and the creation timer has put its new body at the
\* layer's x and y, where the old body, now out of the world, is not
C29_Witness ==
    \E id \in LayerIds :
        /\ lastEvent.type = "timer" /\ lastEvent.target = id
        /\ Len(bodies) = Len(Walls) + 2
        /\ bodyRef[id] = Len(bodies)
        /\ world = DOMAIN Walls \cup {Len(bodies)}
        /\ bodies[Len(bodies)].position = Vec(Layer(id).x, Layer(id).y)
        /\ bodies[Len(Walls) + 1].position # Vec(Layer(id).x, Layer(id).y)
        /\ position[id] = Vec(Layer(id).x, Layer(id).y)

(***************************************************************************)
(* Asset drag and canvas pan, checked under Spec.                          *)
(***************************************************************************)
\* C30: a pointer-down on an asset starts a drag of that asset and no canvas
\* pan, and every move of the pointer while it is held puts the asset's body
\* where the drag takes it and leaves the camera as it is
C30_AssetDragMovesBodyNotCamera ==
    [][\A id \in LayerIds :
          /\ (lastEvent'.type = "assetdown" /\ lastEvent'.target = id)
                => /\ dragInfo'[id].active
                   /\ isDragging' = isDragging
                   /\ camera' = camera
          /\ (capture = id /\ lastEvent'.type = "assetmove" /\ lastEvent'.target = id)
                => /\ camera' = camera
                   /\ bodyRef[id] # 0
                   /\ bodies'[bodyRef[id]].position =
                         DraggedTo(dragInfo[id], [x |-> lastEvent'.clientX, y |-> lastEvent'.clientY],
                                   cameraRef)]_vars

====
